---- MODULE Spec2Model ----
(***************************************************************************)
(* Model of the MCP router: the downstream client sessions                 *)
(* (src/src/mcp/client.py), the router (src/src/mcp/router.py) and the     *)
(* upstream server facade (src/src/mcp/server.py).                         *)
(*                                                                         *)
(* A Python dict is a function whose DOMAIN is its key set; the registry   *)
(* dict, whose iteration order is its insertion order, is a sequence of    *)
(* instance records with pairwise distinct names.                          *)
(***************************************************************************)
EXTENDS Integers, Sequences, FiniteSets, TLC

(* ------------------------------ bounds -------------------------------- *)

\* upstream requests handled in one run
MaxRequests == 2

\* the tool names a child may advertise (a response may repeat a name)
Tools == {"t1", "t2"}

\* a tool name no child advertises
UnknownTool == "nope"

\* the tools/list responses a child gives: two tools, and one tool listed
\* twice
ToolResponses == {<<"t1", "t2">>, <<"t1", "t1">>}

InstanceNames == {"a", "b"}

\* a name INSTANCE_NAME_PATTERN rejects
BadInstanceName == "a;b"

ProviderNames == {"p1", "p2"}

\* a name PROVIDER_NAME_PATTERN rejects
BadProviderName == "p|q"

\* how far the clock of the watcher subprocess runs, in ticks
MaxTime == 5

\* the capacity of the watcher's queue (multiprocessing.Queue(maxsize=100))
maxsize == 2

\* the longest name handed to validate_provider_name and validate_instance_name
MaxNameLen == 2

\* the most components of a path handed to validate_path
MaxPathLen == 2

Range(s) == {s[i] : i \in 1..Len(s)}

(* --------------------------- Python dicts ----------------------------- *)

EmptyDict == [k \in {} |-> ""]

\* d[k] = v
Put(d, k, v) == [f \in DOMAIN d \cup {k} |-> IF f = k THEN v ELSE d[f]]

\* k in d
HasKey(d, k) == k \in DOMAIN d

(* ---------------------------- exceptions ------------------------------ *)

\* an exception object: its class, str(e) and its `code` attribute
\* (NoCodeAttr when the class has none)
NoCodeAttr == "<no code attribute>"

NoExc == [type |-> "None", message |-> "", code |-> NoCodeAttr]

Raised(e) == e.type # "None"

ConfigurationError(message) ==
    [type |-> "ConfigurationError", message |-> message, code |-> "CONFIG_ERROR"]

ValidationError(message) ==
    [type |-> "ValidationError", message |-> message, code |-> "VALIDATION_ERROR"]

InstanceNotFoundError(instance_name) ==
    [type |-> "InstanceNotFoundError",
     message |-> "Instance not found: " \o instance_name,
     code |-> "INSTANCE_NOT_FOUND"]

ToolNotFoundError(tool_name, instance_name) ==
    [type |-> "ToolNotFoundError",
     message |-> "Tool '" \o tool_name \o "' not found in instance '" \o instance_name \o "'",
     code |-> "TOOL_NOT_FOUND"]

\* self.timeout is rendered in the message; the model runs with T = 30.0
MCPTimeoutError ==
    [type |-> "TimeoutError", message |-> "Timeout exceeded: 30.0s", code |-> "TIMEOUT"]

\* exceptions of classes outside core/exceptions.py: no `code` attribute
BuiltinError(type, message) == [type |-> type, message |-> message, code |-> NoCodeAttr]

\* whatever the child or the MCP SDK raises on a broken stream
ChildError == BuiltinError("Exception", "child error")

(* ----------------------------- validator ------------------------------ *)

\* PROVIDER_NAME_PATTERN.match(name): of the names the model feeds in, only
\* BadProviderName has a character outside [a-zA-Z0-9_-]
PROVIDER_NAME_PATTERN(name) == name \in ProviderNames

\* INSTANCE_NAME_PATTERN.match(name)
INSTANCE_NAME_PATTERN(name) == name \in InstanceNames

\* Names and paths as Python sees them when it matches and compares them:
\* sequences of characters.  "a", "Z" and "9" stand for the letters and
\* digits, "u4e00" for a character of the range \u4e00-\u9fa5.
ProviderNameChars == {"a", "Z", "9", "_", "-"}

InstanceNameChars == ProviderNameChars \cup {"u4e00"}

\* the command-injection metacharacters ; | & $ and, by name, the backtick,
\* the newline (LF) and the carriage return (CR)
DangerousChars == {";", "|", "&", "$", "backtick", "LF", "CR"}

\* the names of up to n characters, over the characters of both patterns,
\* the shell metacharacters and the space
RECURSIVE NamesUpTo(_)
NamesUpTo(n) ==
    IF n = 0 THEN {<<>>}
    ELSE NamesUpTo(n - 1) \cup
         {Append(name, c) : name \in {m \in NamesUpTo(n - 1) : Len(m) = n - 1},
                            c \in InstanceNameChars \cup DangerousChars \cup {" "}}

NameInputs == NamesUpTo(MaxNameLen)

\* re.compile(r"^[<class>]+$").match(name): one or more characters of the
\* class from the start of the string up to where $ matches, which is the
\* end of the string and also the place before a newline that ends it
pattern_match(name, class) ==
    \E stop \in {Len(name)} \cup {k \in {Len(name) - 1} : k >= 0 /\ name[Len(name)] = "LF"} :
        /\ stop >= 1
        /\ \A i \in 1..stop : name[i] \in class

MAX_PROVIDER_NAME_LENGTH == 100

MAX_INSTANCE_NAME_LENGTH == 100

\* validate_provider_name(name): raises ValidationError or returns name
validate_provider_name(name) ==
    IF name = <<>> THEN [raised |-> TRUE, output |-> <<>>]
    ELSE IF ~pattern_match(name, ProviderNameChars) THEN [raised |-> TRUE, output |-> <<>>]
    ELSE IF Len(name) > MAX_PROVIDER_NAME_LENGTH THEN [raised |-> TRUE, output |-> <<>>]
    ELSE [raised |-> FALSE, output |-> name]

\* validate_instance_name(name): raises ValidationError or returns name
validate_instance_name(name) ==
    IF name = <<>> THEN [raised |-> TRUE, output |-> <<>>]
    ELSE IF ~pattern_match(name, InstanceNameChars) THEN [raised |-> TRUE, output |-> <<>>]
    ELSE IF Len(name) > MAX_INSTANCE_NAME_LENGTH THEN [raised |-> TRUE, output |-> <<>>]
    ELSE [raised |-> FALSE, output |-> name]

\* A path is its components, each a sequence of characters, and whether it
\* starts at the root.  The working directory of the process is /s and the
\* base directory "d" (for "data"); "dx" is a sibling of it whose name
\* begins with the base's name.
ParentDir == <<".", ".">>

\* the paths of up to n parts, each "..", "d", "dx" or "e"
RECURSIVE PartsUpTo(_)
PartsUpTo(n) ==
    IF n = 0 THEN {<<>>}
    ELSE PartsUpTo(n - 1) \cup
         {Append(parts, c) : parts \in {m \in PartsUpTo(n - 1) : Len(m) = n - 1},
                             c \in {ParentDir, <<"d">>, <<"d", "x">>, <<"e">>}}

PathInputs == [absolute : BOOLEAN, parts : PartsUpTo(MaxPathLen)]

cwd == <<<<"s">>>>

\* Path.resolve() of an absolute path without symlinks: ".." drops the
\* component before it, and the root is its own parent
RECURSIVE resolve(_, _)
resolve(done, parts) ==
    IF parts = <<>> THEN done
    ELSE IF Head(parts) = ParentDir
        THEN resolve(IF done = <<>> THEN <<>> ELSE SubSeq(done, 1, Len(done) - 1), Tail(parts))
    ELSE resolve(Append(done, Head(parts)), Tail(parts))

\* str(path) of an absolute path: "/" and the components joined by "/"
RECURSIVE str(_)
str(parts) ==
    IF parts = <<>> THEN <<"/">>
    ELSE IF Len(parts) = 1 THEN <<"/">> \o parts[1]
    ELSE str(SubSeq(parts, 1, Len(parts) - 1)) \o <<"/">> \o parts[Len(parts)]

\* text.startswith(prefix)
startswith(text, prefix) ==
    Len(prefix) <= Len(text) /\ SubSeq(text, 1, Len(prefix)) = prefix

\* validate_path(path, base_path): raises ValidationError or returns the
\* resolved target (base / path is path itself when path is absolute)
validate_path(path, base_path) ==
    LET base == resolve(<<>>, cwd \o base_path)
        target == IF path.absolute THEN resolve(<<>>, path.parts)
                  ELSE resolve(<<>>, base \o path.parts)
    IN  IF ~startswith(str(target), str(base)) THEN [raised |-> TRUE, output |-> <<>>]
        ELSE [raised |-> FALSE, output |-> target]

\* a command holding one of ; | & $ ` \n \r
DangerousCommand == "x;y"

\* the exception validate_config(config) raises, NoExc when it returns config
validate_config(config) ==
    IF ~HasKey(config, "provider") THEN ValidationError("Missing required field: provider")
    ELSE IF ~HasKey(config, "name") THEN ValidationError("Missing required field: name")
    ELSE IF ~HasKey(config, "type") THEN ValidationError("Missing required field: type")
    ELSE IF ~HasKey(config, "command") THEN ValidationError("Missing required field: command")
    ELSE IF config["provider"] = "" THEN ValidationError("Provider name cannot be empty")
    ELSE IF ~PROVIDER_NAME_PATTERN(config["provider"])
        THEN ValidationError("Invalid provider name: '" \o config["provider"] \o "'")
    ELSE IF config["name"] = "" THEN ValidationError("Instance name cannot be empty")
    ELSE IF ~INSTANCE_NAME_PATTERN(config["name"])
        THEN ValidationError("Invalid instance name: '" \o config["name"] \o "'")
    ELSE IF config["type"] \notin {"stdio", "sse", "http"}
        THEN ValidationError("Invalid transport type: " \o config["type"])
    ELSE IF config["command"] = "" THEN ValidationError("Command cannot be empty")
    ELSE IF config["command"] = DangerousCommand
        THEN ValidationError("Dangerous character ';' detected in command")
    ELSE NoExc

(* ------------------------- MCPClientInstance -------------------------- *)

\* MCPClientInstance.__init__: _tools is the set of catalogue keys,
\* _transport and _session say whether the attribute holds an object
MCPClientInstance(name, provider, transport_type, is_active) ==
    [name |-> name, provider |-> provider, transport_type |-> transport_type,
     is_active |-> is_active,
     _session |-> FALSE, _transport |-> FALSE, _tools |-> {}, _connected |-> FALSE]

\* what the child does during one connect(): the handshake step it fails at
\* ("none": it completes), how it fails, and its tools/list response

ConnectBehaviours ==
    {[fail_at |-> "none", how |-> "ok", tools |-> ts] : ts \in ToolResponses}
    \cup {[fail_at |-> "transport", how |-> h, tools |-> <<>>] : h \in {"timeout", "error"}}
    \cup {[fail_at |-> "initialize", how |-> "error", tools |-> <<>>],
          [fail_at |-> "list_tools", how |-> "timeout", tools |-> <<>>]}

HealthyConnects == {b \in ConnectBehaviours : b.fail_at = "none"}

\* create_transport: only stdio is implemented
create_transport(transport_type) ==
    IF transport_type = "stdio" THEN NoExc
    ELSE IF transport_type \in {"sse", "http"}
        THEN BuiltinError("NotImplementedError", "transport not yet implemented")
    ELSE BuiltinError("ValueError", "Unsupported transport type: " \o transport_type)

\* _fetch_tools: the catalogue is rebuilt from the response, keyed by tool name
_fetch_tools(inst, b) ==
    IF ~inst._session
        THEN [inst |-> inst, exc |-> ConfigurationError("Not connected to MCP server")]
    ELSE IF b.fail_at = "list_tools"
        THEN [inst |-> inst, exc |-> IF b.how = "timeout" THEN MCPTimeoutError ELSE ChildError]
    ELSE [inst |-> [inst EXCEPT !._tools = Range(b.tools)], exc |-> NoExc]

\* connect() from its try on, past the test of _connected
handshake(inst, b) ==
    IF Raised(create_transport(inst.transport_type))
        THEN [inst |-> inst,
              exc |-> ConfigurationError("Failed to connect: "
                          \o create_transport(inst.transport_type).message)]
    ELSE LET opened == [inst EXCEPT !._transport = TRUE]
             started == [opened EXCEPT !._session = TRUE]
             failure == IF b.how = "timeout" THEN MCPTimeoutError
                        ELSE ConfigurationError("Failed to connect: " \o ChildError.message)
             fetched == _fetch_tools(started, b)
         IN  IF b.fail_at = "transport" THEN [inst |-> opened, exc |-> failure]
             ELSE IF b.fail_at \in {"session", "initialize"}
                 THEN [inst |-> started, exc |-> failure]
             ELSE IF Raised(fetched.exc)
                 \* an MCPTimeoutError out of _fetch_tools is not an
                 \* asyncio.TimeoutError: the generic handler wraps it
                 THEN [inst |-> fetched.inst,
                       exc |-> ConfigurationError("Failed to connect: " \o fetched.exc.message)]
             ELSE [inst |-> [fetched.inst EXCEPT !._connected = TRUE], exc |-> NoExc]

\* mutant: the session is flagged connected once the session has started,
\* before initialize and the catalogue
connect_flags_first(inst, b) ==
    IF inst._connected THEN [inst |-> inst, exc |-> NoExc]
    ELSE IF Raised(create_transport(inst.transport_type))
        THEN [inst |-> inst,
              exc |-> ConfigurationError("Failed to connect: "
                          \o create_transport(inst.transport_type).message)]
    ELSE LET opened == [inst EXCEPT !._transport = TRUE]
             started == [opened EXCEPT !._session = TRUE, !._connected = TRUE]
             failure == IF b.how = "timeout" THEN MCPTimeoutError
                        ELSE ConfigurationError("Failed to connect: " \o ChildError.message)
             fetched == _fetch_tools(started, b)
         IN  IF b.fail_at = "transport" THEN [inst |-> opened, exc |-> failure]
             ELSE IF b.fail_at \in {"session", "initialize"}
                 THEN [inst |-> started, exc |-> failure]
             ELSE IF Raised(fetched.exc)
                 THEN [inst |-> fetched.inst,
                       exc |-> ConfigurationError("Failed to connect: " \o fetched.exc.message)]
             ELSE [inst |-> fetched.inst, exc |-> NoExc]

\* connect(): [inst |-> the instance afterwards, exc |-> what it raised]
connect(inst, b) ==
    IF inst._connected THEN [inst |-> inst, exc |-> NoExc]
    ELSE handshake(inst, b)

\* whether closing the session and the transport goes through or raises
DisconnectBehaviours == {"ok", "error"}

\* disconnect(): never raises; a failed close is logged and leaves the flags
disconnect(inst, b) ==
    IF ~inst._connected THEN inst
    ELSE IF b = "error" THEN inst
    ELSE [inst EXCEPT !._connected = FALSE, !._tools = {}, !._transport = FALSE]

\* what the child does with one tools/call
CallBehaviours == {"ok", "timeout", "error"}

\* mutant: the active flag is tested before the connection
call_tool_guard_active_first(inst, tool_name) ==
    IF ~inst.is_active
        THEN ConfigurationError("Instance '" \o inst.name \o "' is not active")
    ELSE IF ~inst._connected \/ ~inst._session
        THEN ConfigurationError("Instance '" \o inst.name \o "' not connected")
    ELSE IF tool_name \notin inst._tools
        THEN ToolNotFoundError(tool_name, inst.name)
    ELSE NoExc

\* the guards of call_tool, in the order the code tests them
call_tool_guard(inst, tool_name) ==
    IF ~inst._connected \/ ~inst._session
        THEN ConfigurationError("Instance '" \o inst.name \o "' not connected")
    ELSE IF ~inst.is_active
        THEN ConfigurationError("Instance '" \o inst.name \o "' is not active")
    ELSE IF tool_name \notin inst._tools
        THEN ToolNotFoundError(tool_name, inst.name)
    ELSE NoExc

\* mutant: a timed-out call marks the session disconnected
call_tool_drops_session(inst, tool_name, b) ==
    IF Raised(call_tool_guard(inst, tool_name))
        THEN [inst |-> inst, exc |-> call_tool_guard(inst, tool_name), sent |-> FALSE]
    ELSE IF b = "timeout"
        THEN [inst |-> [inst EXCEPT !._connected = FALSE], exc |-> MCPTimeoutError,
              sent |-> TRUE]
    ELSE IF b = "error" THEN [inst |-> inst, exc |-> ChildError, sent |-> TRUE]
    ELSE [inst |-> inst, exc |-> NoExc, sent |-> TRUE]

\* call_tool(): the instance afterwards, what it raised and whether a
\* tools/call went to the child (sent)
call_tool(inst, tool_name, b) ==
    IF Raised(call_tool_guard(inst, tool_name))
        THEN [inst |-> inst, exc |-> call_tool_guard(inst, tool_name), sent |-> FALSE]
    ELSE IF b = "timeout" THEN [inst |-> inst, exc |-> MCPTimeoutError, sent |-> TRUE]
    ELSE IF b = "error" THEN [inst |-> inst, exc |-> ChildError, sent |-> TRUE]
    ELSE [inst |-> inst, exc |-> NoExc, sent |-> TRUE]

\* to_dict(): the fields list() reports
to_dict(inst) ==
    [name |-> inst.name, provider |-> inst.provider, active |-> inst.is_active,
     connected |-> inst._connected, transport_type |-> inst.transport_type,
     tools_count |-> Cardinality(inst._tools)]

(* -------------------------- MCPClientManager -------------------------- *)

\* the registry dict self._instances, in insertion order
Keys(insts) == {insts[i].name : i \in 1..Len(insts)}

\* instance_name in self._instances
Registered(insts, name) == name \in Keys(insts)

IndexOf(insts, name) == CHOOSE i \in 1..Len(insts) : insts[i].name = name

\* self._instances[instance_name]
Lookup(insts, name) == insts[IndexOf(insts, name)]

\* mutant: a new key goes to the front
Store_in_front(insts, inst) ==
    IF Registered(insts, inst.name)
        THEN [insts EXCEPT ![IndexOf(insts, inst.name)] = inst]
    ELSE <<inst>> \o insts

\* self._instances[inst.name] = inst: an existing key keeps its position
Store(insts, inst) ==
    IF Registered(insts, inst.name)
        THEN [insts EXCEPT ![IndexOf(insts, inst.name)] = inst]
    ELSE Append(insts, inst)

\* del self._instances[instance_name]
Delete(insts, name) ==
    LET k == IndexOf(insts, name)
    IN  [i \in 1..(Len(insts) - 1) |-> IF i < k THEN insts[i] ELSE insts[i + 1]]

\* what <data>/<provider>/mcp_settings.json holds
\* (servers: the values of its "mcpServers" object, when it has one)
NoFile == [kind |-> "none", data |-> EmptyDict, servers |-> <<>>]

JsonFile(config) == [kind |-> "json", data |-> config, servers |-> <<>>]

McpServersFile(configs) == [kind |-> "mcpServers", data |-> EmptyDict, servers |-> configs]

\* a file json.load cannot parse
GarbageFile == [kind |-> "garbage", data |-> EmptyDict, servers |-> <<>>]

\* _create_instance_from_config: the instance is registered only after its
\* connect() returned
_create_instance_from_config(insts, config, provider, cb) ==
    LET cfg == Put(config, "provider",
                   IF HasKey(config, "provider") THEN config["provider"] ELSE provider)
        instance == MCPClientInstance(cfg["name"], cfg["provider"], cfg["type"],
                        IF HasKey(cfg, "isActive") THEN cfg["isActive"] ELSE TRUE)
        connected == IF instance.is_active THEN connect(instance, cb)
                     ELSE [inst |-> instance, exc |-> NoExc]
    IN  IF Raised(validate_config(cfg)) THEN [insts |-> insts, exc |-> validate_config(cfg)]
        ELSE IF Raised(connected.exc) THEN [insts |-> insts, exc |-> connected.exc]
        ELSE [insts |-> Store(insts, connected.inst), exc |-> NoExc]

\* mutant: the config file is written before the duplicate check
add_instance_writes_first(insts, disk, provider, config, cb) ==
    LET validated_config == Put(config, "provider", provider)
        created == _create_instance_from_config(insts, validated_config, provider, cb)
        written == [disk EXCEPT ![provider] = JsonFile(validated_config)]
    IN  IF Raised(validate_config(validated_config))
            THEN [insts |-> insts, disk |-> disk, exc |-> validate_config(validated_config)]
        ELSE IF Registered(insts, validated_config["name"])
            THEN [insts |-> insts, disk |-> written,
                  exc |-> ConfigurationError("Instance '" \o validated_config["name"]
                                             \o "' already exists")]
        ELSE [insts |-> created.insts, disk |-> written, exc |-> created.exc]

\* add_instance(provider, config, save_to_file=True)
add_instance(insts, disk, provider, config, cb) ==
    LET validated_config == Put(config, "provider", provider)
        created == _create_instance_from_config(insts, validated_config, provider, cb)
    IN  IF Raised(validate_config(validated_config))
            THEN [insts |-> insts, disk |-> disk, exc |-> validate_config(validated_config)]
        ELSE IF Registered(insts, validated_config["name"])
            THEN [insts |-> insts, disk |-> disk,
                  exc |-> ConfigurationError("Instance '" \o validated_config["name"]
                                             \o "' already exists")]
        ELSE [insts |-> created.insts,
              disk |-> [disk EXCEPT ![provider] = JsonFile(validated_config)],
              exc |-> created.exc]

\* mutant: removing an unknown name passes silently
remove_instance_unchecked(insts, disk, instance_name, db) ==
    IF ~Registered(insts, instance_name)
        THEN [insts |-> insts, disk |-> disk, exc |-> NoExc, dropped |-> <<>>]
    ELSE [insts |-> Delete(insts, instance_name),
          disk |-> [disk EXCEPT ![Lookup(insts, instance_name).provider] = NoFile],
          exc |-> NoExc,
          dropped |-> disconnect(Lookup(insts, instance_name), db)]

\* remove_instance(instance_name, delete_file=True)
remove_instance(insts, disk, instance_name, db) ==
    IF ~Registered(insts, instance_name)
        THEN [insts |-> insts, disk |-> disk, exc |-> InstanceNotFoundError(instance_name),
              dropped |-> <<>>]
    ELSE [insts |-> Delete(insts, instance_name),
          disk |-> [disk EXCEPT ![Lookup(insts, instance_name).provider] = NoFile],
          exc |-> NoExc,
          \* the session object the registry let go of
          dropped |-> disconnect(Lookup(insts, instance_name), db)]

\* enable_instance: is_active is set before the connect is tried
enable_instance(insts, instance_name, cb) ==
    IF ~Registered(insts, instance_name)
        THEN [insts |-> insts, exc |-> InstanceNotFoundError(instance_name)]
    ELSE LET instance == [Lookup(insts, instance_name) EXCEPT !.is_active = TRUE]
             connected == IF ~instance._connected THEN connect(instance, cb)
                          ELSE [inst |-> instance, exc |-> NoExc]
         IN  [insts |-> Store(insts, connected.inst), exc |-> connected.exc]

\* mutant: disable leaves the active flag alone
disable_instance_keeps_flag(insts, instance_name) ==
    IF ~Registered(insts, instance_name)
        THEN [insts |-> insts, exc |-> InstanceNotFoundError(instance_name)]
    ELSE [insts |-> insts, exc |-> NoExc]

\* disable_instance
disable_instance(insts, instance_name) ==
    IF ~Registered(insts, instance_name)
        THEN [insts |-> insts, exc |-> InstanceNotFoundError(instance_name)]
    ELSE [insts |-> Store(insts, [Lookup(insts, instance_name) EXCEPT !.is_active = FALSE]),
          exc |-> NoExc]

\* get_instance: the exception it raises, NoExc when it returns the instance
get_instance(insts, instance_name) ==
    IF ~Registered(insts, instance_name) THEN InstanceNotFoundError(instance_name) ELSE NoExc

\* list_instances
list_instances(insts) == [i \in 1..Len(insts) |-> to_dict(insts[i])]

\* mutant: the active flag is not looked at
get_all_tools_any_connected(insts) ==
    [n \in {m \in Keys(insts) : Lookup(insts, m)._connected} |-> Lookup(insts, n)._tools]

\* get_all_tools: a dict keyed by the names of the active connected instances
get_all_tools(insts) ==
    [n \in {m \in Keys(insts) : Lookup(insts, m).is_active /\ Lookup(insts, m)._connected}
        |-> Lookup(insts, n)._tools]

(* ------------------------------ MCPRouter ----------------------------- *)

\* self._current_instance = None
NoCurrent == "<None>"

\* mutant: the status string is "Done" whatever happened
Status_always_done(exc) == "Done"

\* the status string of add, remove, enable and disable
Status(exc) == IF Raised(exc) THEN "Error: " \o exc.message ELSE "Done"

\* What one router method did: the registry, the disk and the hint
\* afterwards, the exception that left the method (exc), the exception the
\* manager or the session raised inside it (inner), the status string it
\* returned ("" when it returns a value or raises) and whether a tools/call
\* went downstream.
RouterResult(insts, disk, current, exc, inner, status, sent) ==
    [insts |-> insts, disk |-> disk, current |-> current, exc |-> exc, inner |-> inner,
     status |-> status, sent |-> sent]

\* use(instance_name)
use(insts, disk, current, instance_name) ==
    IF Raised(get_instance(insts, instance_name))
        THEN RouterResult(insts, disk, current, get_instance(insts, instance_name),
                          get_instance(insts, instance_name), "", FALSE)
    ELSE RouterResult(insts, disk, instance_name, NoExc, NoExc, "", FALSE)

\* list() and help() read the registry and change nothing
read_only(insts, disk, current) == RouterResult(insts, disk, current, NoExc, NoExc, "", FALSE)

\* add(provider_name, config)
add(insts, disk, current, provider_name, config, cb) ==
    LET r == add_instance(insts, disk, provider_name, config, cb)
    IN  RouterResult(r.insts, r.disk, current, NoExc, r.exc, Status(r.exc), FALSE)

\* call(instance_name, tool_name, **kwargs)
call(insts, disk, current, instance_name, tool_name, b) ==
    IF Raised(get_instance(insts, instance_name))
        THEN RouterResult(insts, disk, current, get_instance(insts, instance_name),
                          get_instance(insts, instance_name), "", FALSE)
    ELSE LET r == call_tool(Lookup(insts, instance_name), tool_name, b)
         IN  RouterResult(Store(insts, r.inst), disk, current, r.exc, r.exc, "", r.sent)

\* mutant: remove leaves the hint alone
remove_keeps_hint(insts, disk, current, instance_name, db) ==
    LET r == remove_instance(insts, disk, instance_name, db)
    IN  RouterResult(r.insts, r.disk, current, NoExc, r.exc, Status(r.exc), FALSE)

\* remove(instance_name): the hint is cleared only after a successful removal
remove(insts, disk, current, instance_name, db) ==
    LET r == remove_instance(insts, disk, instance_name, db)
    IN  RouterResult(r.insts, r.disk,
                     IF ~Raised(r.exc) /\ current = instance_name THEN NoCurrent ELSE current,
                     NoExc, r.exc, Status(r.exc), FALSE)

\* disable(instance_name)
disable(insts, disk, current, instance_name) ==
    LET r == disable_instance(insts, instance_name)
    IN  RouterResult(r.insts, disk, current, NoExc, r.exc, Status(r.exc), FALSE)

\* enable(instance_name)
enable(insts, disk, current, instance_name, cb) ==
    LET r == enable_instance(insts, instance_name, cb)
    IN  RouterResult(r.insts, disk, current, NoExc, r.exc, Status(r.exc), FALSE)

(* ------------------------------ MCPServer ----------------------------- *)

read_only_tools == <<"mcp.router.use", "mcp.router.list", "mcp.router.help", "mcp.router.call">>

management_tool_list ==
    <<"mcp.router.add", "mcp.router.remove", "mcp.router.disable", "mcp.router.enable">>

\* the set call_tool_impl tests the name against
management_tools ==
    {"mcp.router.add", "mcp.router.remove", "mcp.router.enable", "mcp.router.disable"}

\* mutant: the management tools are advertised whatever the flag says
list_tools_impl_all(allow) == read_only_tools \o management_tool_list

\* list_tools_impl: the names of the advertised tools, in order
list_tools_impl(allow) ==
    IF allow THEN read_only_tools \o management_tool_list ELSE read_only_tools

\* mutant: the permission check is left out
permission_never_refused(allow, name) == FALSE

\* the permission check at the head of call_tool_impl
permission_refused(allow, name) == name \in management_tools /\ ~allow

PermissionError(name) ==
    BuiltinError("PermissionError",
                 "Instance management is disabled. Tool '" \o name \o "' is not available.")

\* the branch of the if/elif chain a tool name selects: the router method,
\* "" for the final else
branch_of(name) ==
    CASE name = "mcp.router.use" -> "use"
      [] name = "mcp.router.list" -> "list"
      [] name = "mcp.router.help" -> "help"
      [] name = "mcp.router.add" -> "add"
      [] name = "mcp.router.call" -> "call"
      [] name = "mcp.router.remove" -> "remove"
      [] name = "mcp.router.disable" -> "disable"
      [] name = "mcp.router.enable" -> "enable"
      [] OTHER -> ""

\* the keys a branch subscripts arguments with, in evaluation order
subscripted(method) ==
    CASE method \in {"use", "remove", "disable", "enable"} -> <<"instance_name">>
      [] method = "add" -> <<"provider_name", "config">>
      [] method = "call" -> <<"instance_name", "tool_name">>
      [] OTHER -> <<>>

\* arguments[key] for the first absent key raises KeyError(key)
missing_keys(method, arguments) ==
    SelectSeq(subscripted(method), LAMBDA k : ~HasKey(arguments, k))

KeyError(key) == BuiltinError("KeyError", "'" \o key \o "'")

\* the router method a branch invokes
invoke(method, insts, disk, current, arguments, cb, db, b) ==
    CASE method = "use" -> use(insts, disk, current, arguments["instance_name"])
      [] method \in {"list", "help"} -> read_only(insts, disk, current)
      [] method = "add" ->
            add(insts, disk, current, arguments["provider_name"], arguments["config"], cb)
      [] method = "call" ->
            call(insts, disk, current, arguments["instance_name"], arguments["tool_name"], b)
      [] method = "remove" -> remove(insts, disk, current, arguments["instance_name"], db)
      [] method = "disable" -> disable(insts, disk, current, arguments["instance_name"])
      [] method = "enable" -> enable(insts, disk, current, arguments["instance_name"], cb)

\* The try body of call_tool_impl up to the serialisation: r is what the
\* router did (nothing when it was not reached), branch the router method
\* that ran ("" when none did), caught the exception the except clause gets.
try_body(allow, insts, disk, current, name, arguments, cb, db, b) ==
    LET untouched == read_only(insts, disk, current)
        method == branch_of(name)
        r == invoke(method, insts, disk, current, arguments, cb, db, b)
    IN  IF permission_refused(allow, name)
            THEN [r |-> untouched, branch |-> "", caught |-> PermissionError(name)]
        ELSE IF method = ""
            THEN [r |-> untouched, branch |-> "",
                  caught |-> BuiltinError("ValueError", "Unknown tool: " \o name)]
        ELSE IF missing_keys(method, arguments) # <<>>
            THEN [r |-> untouched, branch |-> "",
                  caught |-> KeyError(missing_keys(method, arguments)[1])]
        ELSE [r |-> r, branch |-> method, caught |-> r.exc]

\* getattr(e, "code", "INTERNAL_ERROR")
wire_code(e) == IF e.code = NoCodeAttr THEN "INTERNAL_ERROR" ELSE e.code

NoPayload == [error |-> "", code |-> ""]

\* The except clause: it serialises the error with json.dumps.  `import
\* json` is a statement of the try body (line 257), so json is a local name
\* of call_tool_impl, bound only once that statement has run; reading it
\* unbound raises UnboundLocalError out of the handler.
except_clause(e, import_ran) ==
    IF import_ran
        THEN [outcome |-> "returned", parts |-> 1,
              payload |-> [error |-> e.message, code |-> wire_code(e)], escaped |-> NoExc]
    ELSE [outcome |-> "raised", parts |-> 0, payload |-> NoPayload,
          escaped |-> BuiltinError("UnboundLocalError",
                          "cannot access local variable 'json' where it is not associated with a value")]

\* What call_tool_impl hands back: one text part with the JSON of the
\* result, or the outcome of the except clause.  Every exception of the
\* try body is raised by a statement before the import.
respond(caught) ==
    IF Raised(caught) THEN except_clause(caught, FALSE)
    ELSE [outcome |-> "returned", parts |-> 1, payload |-> NoPayload, escaped |-> NoExc]

\* no handler has produced a response
NoResponse == [outcome |-> "", parts |-> 0, payload |-> NoPayload, escaped |-> NoExc]

\* the methods an HTTP host may POST to /mcp
HttpMethods ==
    {"initialize", "notifications/initialized", "ping", "tools/list", "tools/call",
     "resources/list", "prompts/list", "bogus/method"}

\* mutant: the initialisation check is left out
needs_initialize_never(initialized, method) == FALSE

\* handle_http: `not _session_initialized and method not in ["ping"]`
needs_initialize(initialized, method) == ~initialized /\ method # "ping"

\* the bodies POSTed to /mcp: a JSON object, JSON that is no object (an
\* array), and bytes that are no JSON
HttpBodies == {"object", "array", "no json"}

\* the except clause of handle_http builds the reply from data.get("id"):
\* data is unbound when request.json() raised and has no get when the body
\* is no object, so the clause itself raises
http_except_clause(body) ==
    IF body = "no json"
        THEN BuiltinError("UnboundLocalError",
                 "cannot access local variable 'data' where it is not associated with a value")
    ELSE IF body = "array"
        THEN BuiltinError("AttributeError", "'list' object has no attribute 'get'")
    ELSE NoExc

\* What handle_http does with one request: the flag afterwards, what the
\* router did (r, branch, caught, as in try_body), how list_tools_impl or
\* call_tool_impl ended when one of them was called (resp.outcome is "" when
\* neither was), the JSON-RPC error code of the reply (0: a result, or no
\* reply) and the exception that left the handler (escaped).
handle_http(body, initialized, method, allow, insts, disk, current, name, arguments, cb, db, b) ==
    LET untouched == read_only(insts, disk, current)
        quiet(flag, code) ==
            [initialized |-> flag, r |-> untouched, branch |-> "", caught |-> NoExc,
             resp |-> NoResponse, rpc_error |-> code, escaped |-> NoExc]
        t == try_body(allow, insts, disk, current, name, arguments, cb, db, b)
    IN  IF body # "object"
            \* request.json() or data.get("method") raises inside the try
            THEN [quiet(initialized, 0) EXCEPT !.escaped = http_except_clause(body)]
        ELSE IF method = "initialize" THEN quiet(TRUE, 0)
        ELSE IF method = "notifications/initialized" THEN quiet(initialized, 0)
        ELSE IF needs_initialize(initialized, method) THEN quiet(initialized, -32002)
        ELSE IF method = "ping" THEN quiet(initialized, 0)
        ELSE IF method = "tools/list"
            THEN [quiet(initialized, 0) EXCEPT !.resp.outcome = "returned"]
        ELSE IF method = "tools/call"
            \* an exception out of call_tool_impl is answered with -32603
            THEN [initialized |-> initialized, r |-> t.r, branch |-> t.branch,
                  caught |-> t.caught, resp |-> respond(t.caught),
                  rpc_error |-> IF respond(t.caught).outcome = "raised" THEN -32603 ELSE 0,
                  escaped |-> NoExc]
        ELSE IF method \in {"resources/list", "prompts/list"} THEN quiet(initialized, 0)
        ELSE quiet(initialized, -32601)

(* ------------------------------- inputs ------------------------------- *)

\* the config dicts callers hand to add
ValidConfig(n, act) == [name |-> n, type |-> "stdio", command |-> "srv", isActive |-> act]

ValidConfigs == {ValidConfig(n, act) : n \in InstanceNames, act \in BOOLEAN}

InvalidConfigs ==
    {[name |-> "a", command |-> "srv"],
     [name |-> BadInstanceName, type |-> "stdio", command |-> "srv"]}

\* the (provider_name, config) pairs tried with add
AddInputs ==
    {[provider_name |-> p, config |-> c] : p \in ProviderNames, c \in ValidConfigs}
    \cup {[provider_name |-> "p1", config |-> c] : c \in InvalidConfigs}
    \cup {[provider_name |-> BadProviderName, config |-> ValidConfig("a", TRUE)]}

\* the tool names an upstream host may put in tools/call
ToolCallNames == Range(read_only_tools) \cup management_tools \cup {"mcp.router.bogus"}

ToolInputs == Tools \cup {UnknownTool}

\* the arguments objects tried with each tool name; EmptyDict lacks every key
ArgumentInputs(name) ==
    CASE branch_of(name) \in {"use", "remove", "disable", "enable"} ->
            {[instance_name |-> n] : n \in InstanceNames} \cup {EmptyDict}
      [] branch_of(name) = "call" ->
            {[instance_name |-> n, tool_name |-> t] : n \in InstanceNames, t \in ToolInputs}
            \cup {[instance_name |-> "a"]}
      [] branch_of(name) = "add" ->
            AddInputs \cup {[provider_name |-> "p1"]}
      [] OTHER -> {EmptyDict}

\* the data directories the model starts from: provider -> its config file
DiskOf(f1, f2) == [p \in ProviderNames |-> IF p = "p1" THEN f1 ELSE f2]

InitialDisks ==
    {DiskOf(NoFile, NoFile),
     DiskOf(JsonFile(Put(ValidConfig("a", TRUE), "provider", "p1")), GarbageFile),
     DiskOf(JsonFile([name |-> "b", type |-> "stdio", command |-> "srv"]),
            McpServersFile(<<Put(ValidConfig("a", FALSE), "provider", "p1")>>))}

(* ------------------------------- state -------------------------------- *)

VARIABLES
    allow_instance_management,  \* MCPServer.allow_instance_management
    _instances,                 \* MCPClientManager._instances
    disk,                       \* provider directory -> its mcp_settings.json
    _current_instance,          \* MCPRouter._current_instance
    load_pending,               \* config files the background load has yet to read
    handled,                    \* number of upstream requests handled so far
    _session_initialized,       \* the flag handle_http closes over (HTTP transport)
    exit_code,                  \* the exit code of the process, NotExited while it runs
    last,                       \* the last request handled and its response
    cleanup,                    \* what the cleanup of run_mcp_server has done, in order
    tasks,                      \* the requests being handled concurrently, each at an await
    _last_modified,             \* ConfigFileHandler._last_modified (watcher subprocess)
    queue,                      \* the multiprocessing.Queue of the watcher
    now,                        \* time.time() in the watcher subprocess, in ticks
    delivered,                  \* path -> when its last event was put on the queue
    probe,                      \* a validator call: its input and what came of it
    _shutdown_requested         \* the global of main.py the signal handler sets

\* what the server's request handlers, the loader and the poller leave alone
other_vars ==
    <<tasks, _last_modified, queue, now, delivered, probe, _shutdown_requested>>

vars ==
    <<allow_instance_management, _instances, disk, _current_instance, load_pending, handled,
      _session_initialized, exit_code, last, cleanup, tasks, _last_modified, queue, now,
      delivered, probe, _shutdown_requested>>

\* the process has not exited
NotExited == "<running>"

\* the requests the server handles at the same time, each in its own task
TaskIds == {"r1", "r2"}

\* a task that has not started; pc is the await a started task is
\* suspended at, exc what its router method raised once it is done, obj the
\* MCPClientInstance it holds a reference to
Idle ==
    [op |-> "", name |-> "", pc |-> "idle", exc |-> "None", orphan |-> FALSE,
     obj |-> MCPClientInstance("", "", "", FALSE)]

\* no request is being handled concurrently
NoTasks == [t \in TaskIds |-> Idle]

\* ConfigFileHandler.debounce_delay, in ticks of half a second
debounce_delay == 2

\* What is kept of a request once it is answered: the tool, the router
\* method that ran, the class and message of the exception raised inside the
\* router (inner) and the class of the one the facade caught, the status string,
\* the JSON-RPC error code of an HTTP reply (0 when there is none), whether a
\* tools/call went downstream and how the handler ended.
Last(layer, op, branch, r, caught, resp) ==
    [layer |-> layer, op |-> op, branch |-> branch, inner |-> r.inner.type,
     message |-> r.inner.message, status |-> r.status, sent |-> r.sent, caught |-> caught.type,
     outcome |-> resp.outcome, parts |-> resp.parts, code |-> resp.payload.code,
     escaped |-> resp.escaped.type, rpc_error |-> 0]

Init ==
    /\ allow_instance_management \in BOOLEAN
    /\ _instances = <<>>
    /\ disk \in InitialDisks
    /\ _current_instance = NoCurrent
    /\ load_pending = {p \in ProviderNames : disk[p].kind # "none"}
    /\ handled = 0
    /\ _session_initialized = FALSE
    /\ exit_code = NotExited
    /\ last = Last("init", "", "", read_only(<<>>, disk, NoCurrent), NoExc, NoResponse)
    /\ cleanup = <<>>
    /\ tasks = NoTasks
    /\ _last_modified = EmptyDict
    /\ queue = <<>>
    /\ now = debounce_delay
    /\ delivered = EmptyDict
    /\ probe = [fn |-> "", input |-> <<>>, raised |-> FALSE, output |-> <<>>]
    /\ _shutdown_requested = FALSE

(* ------------------------------ actions ------------------------------- *)

\* an upstream tools/list request
ListTools ==
    /\ exit_code = NotExited
    /\ handled < MaxRequests
    /\ handled' = handled + 1
    /\ last' = Last("tools_list", "tools/list", "",
                    read_only(_instances, disk, _current_instance), NoExc, NoResponse)
    /\ UNCHANGED <<cleanup, other_vars>>
    /\ UNCHANGED <<allow_instance_management, _instances, disk, _current_instance, load_pending,
                   _session_initialized, exit_code>>

\* the child behaviours that matter to a router method: add and enable
\* connect, remove disconnects, call sends a tools/call
ConnectInputs(method) ==
    IF method \in {"add", "enable"} THEN ConnectBehaviours
    ELSE {[fail_at |-> "none", how |-> "ok", tools |-> <<>>]}

DisconnectInputs(method) == IF method = "remove" THEN DisconnectBehaviours ELSE {"ok"}

CallInputs(method) == IF method = "call" THEN CallBehaviours ELSE {"ok"}

\* an upstream tools/call request, handled by call_tool_impl
ToolCall ==
    /\ exit_code = NotExited
    /\ handled < MaxRequests
    /\ \E name \in ToolCallNames :
       \E arguments \in ArgumentInputs(name) :
       \E cb \in ConnectInputs(branch_of(name)) :
       \E db \in DisconnectInputs(branch_of(name)) :
       \E b \in CallInputs(branch_of(name)) :
       \E t \in {try_body(allow_instance_management, _instances, disk, _current_instance,
                          name, arguments, cb, db, b)} :
            /\ _instances' = t.r.insts
            /\ disk' = t.r.disk
            /\ _current_instance' = t.r.current
            /\ handled' = handled + 1
            /\ last' = Last("facade", name, t.branch, t.r, t.caught, respond(t.caught))
            /\ UNCHANGED <<cleanup, other_vars>>
            /\ UNCHANGED <<allow_instance_management, load_pending, _session_initialized,
                           exit_code>>

\* the loop over data["mcpServers"]: the first exception ends it
RECURSIVE load_servers(_, _, _, _)
load_servers(insts, configs, provider, cbs) ==
    IF configs = <<>> THEN [insts |-> insts, exc |-> NoExc]
    ELSE LET created == _create_instance_from_config(insts, Head(configs), provider, Head(cbs))
         IN  IF Raised(created.exc) THEN created
             ELSE load_servers(created.insts, Tail(configs), provider, Tail(cbs))

\* _load_config_file(<data>/<provider>/mcp_settings.json)
_load_config_file(insts, file, provider, cbs) ==
    CASE file.kind = "none" ->
            [insts |-> insts, exc |-> BuiltinError("FileNotFoundError", "No such file")]
      [] file.kind = "garbage" ->
            [insts |-> insts, exc |-> BuiltinError("JSONDecodeError", "Expecting value")]
      [] file.kind = "mcpServers" -> load_servers(insts, file.servers, provider, cbs)
      [] OTHER -> _create_instance_from_config(insts, file.data, provider, Head(cbs))

\* the number of connects reading one file may start: one per server entry
connects_of(file) == IF file.kind = "mcpServers" THEN Len(file.servers) ELSE 1

\* mutant: the first file that fails ends the load
remaining_after_abort(pending, provider, exc) ==
    IF Raised(exc) THEN {} ELSE pending \ {provider}

\* the files load_configurations still has to read once it is through with
\* one: the except clause of its loop logs the exception and goes on
remaining_after(pending, provider, exc) == pending \ {provider}

\* one iteration of the loop of load_configurations
LoadConfigFile ==
    /\ exit_code = NotExited
    /\ \E provider \in load_pending :
       \E cbs \in [1..connects_of(disk[provider]) -> ConnectBehaviours] :
       \E loaded \in {_load_config_file(_instances, disk[provider], provider, cbs)} :
            /\ _instances' = loaded.insts
            /\ load_pending' = remaining_after(load_pending, provider, loaded.exc)
            /\ last' = Last("load", provider, "",
                            RouterResult(loaded.insts, disk, _current_instance, NoExc,
                                         loaded.exc, "", FALSE),
                            NoExc, NoResponse)
            /\ UNCHANGED <<cleanup, other_vars>>
            /\ UNCHANGED <<allow_instance_management, disk, _current_instance, handled,
                           _session_initialized, exit_code>>

\* the events the watcher subprocess queues: {"path", "event_type"}
WatcherEvents ==
    [provider : ProviderNames, event_type : {"created", "modified", "deleted"}]

\* mutant: a deleted config file takes its provider's instances with it
poll_watcher_queue_reloads(insts, event) ==
    [insts |-> IF event.event_type = "deleted"
                   THEN SelectSeq(insts, LAMBDA inst : inst.provider # event.provider)
               ELSE insts,
     exc |-> NoExc]

\* one turn of the loop of poll_watcher_queue with an event in the queue:
\* two log records, client_manager is not used; the except clause
\* of the loop logs whatever is raised
poll_watcher_queue(insts, event) == [insts |-> insts, exc |-> NoExc]

\* the watcher reports a change of a provider's mcp_settings.json
\* (poll_watcher_queue is a task of the server when watcher.enabled is true)
WatcherEvent ==
    /\ exit_code = NotExited
    /\ \E event \in WatcherEvents :
       \E polled \in {poll_watcher_queue(_instances, event)} :
            /\ _instances' = polled.insts
            /\ last' = Last("watcher", event.event_type, "",
                            RouterResult(polled.insts, disk, _current_instance, NoExc,
                                         polled.exc, "", FALSE),
                            NoExc, NoResponse)
            /\ UNCHANGED <<cleanup, other_vars>>
            /\ UNCHANGED <<allow_instance_management, disk, _current_instance, load_pending,
                           handled, _session_initialized, exit_code>>

\* the server on the stdio transport, with watcher.enabled false
Next == ListTools \/ ToolCall \/ LoadConfigFile

Spec == Init /\ [][Next]_vars

\* tools/call carries a tool name and arguments; the other methods no params
HttpCallNames(method) == IF method = "tools/call" THEN ToolCallNames ELSE {""}

\* one POST /mcp, handled by handle_http (escaped: the exception that left
\* the handler, where last has the one that left call_tool_impl)
HttpRequest ==
    /\ exit_code = NotExited
    /\ handled < MaxRequests
    /\ \E body \in HttpBodies :
       \* a body that is no JSON object has no method
       \E method \in IF body = "object" THEN HttpMethods ELSE {"<" \o body \o ">"} :
       \E name \in HttpCallNames(method) :
       \E arguments \in ArgumentInputs(name) :
       \E cb \in ConnectInputs(branch_of(name)) :
       \E db \in DisconnectInputs(branch_of(name)) :
       \E b \in CallInputs(branch_of(name)) :
       \E h \in {handle_http(body, _session_initialized, method, allow_instance_management,
                             _instances, disk, _current_instance, name, arguments,
                             cb, db, b)} :
            /\ _session_initialized' = h.initialized
            /\ _instances' = h.r.insts
            /\ disk' = h.r.disk
            /\ _current_instance' = h.r.current
            /\ handled' = handled + 1
            /\ last' = [Last("http", method, h.branch, h.r, h.caught, h.resp)
                            EXCEPT !.rpc_error = h.rpc_error, !.escaped = h.escaped.type]
            /\ UNCHANGED <<cleanup, other_vars>>
            /\ UNCHANGED <<allow_instance_management, load_pending, exit_code>>

\* the server on the streamable-HTTP transport, with watcher.enabled true
HttpNext == HttpRequest \/ LoadConfigFile \/ WatcherEvent

HttpSpec == Init /\ [][HttpNext]_vars

\* the sessions a disconnect may hang on, besides DisconnectBehaviours
ShutdownBehaviours == DisconnectBehaviours \cup {"hangs"}

\* mutant: the loop of shutdown ends at the first disconnect that raises
RECURSIVE shutdown_ends_at_raise(_, _)
shutdown_ends_at_raise(insts, dbs) ==
    IF insts = <<>> THEN [insts |-> <<>>, timed_out |-> FALSE, attempted |-> <<>>]
    ELSE IF Head(insts)._connected /\ Head(dbs) = "hangs"
        THEN [insts |-> insts, timed_out |-> TRUE, attempted |-> <<Head(insts).name>>]
    ELSE IF Head(insts)._connected /\ Head(dbs) = "error"
        THEN [insts |-> insts, timed_out |-> FALSE, attempted |-> <<Head(insts).name>>]
    ELSE LET rest == shutdown_ends_at_raise(Tail(insts), Tail(dbs))
             closed == IF Head(insts)._connected THEN disconnect(Head(insts), Head(dbs))
                       ELSE Head(insts)
         IN  [insts |-> <<closed>> \o rest.insts, timed_out |-> rest.timed_out,
              attempted |-> <<Head(insts).name>> \o rest.attempted]

\* MCPClientManager.shutdown under asyncio.wait_for(..., timeout=10.0):
\* disconnect() is called on the instances in order (attempted); the first
\* disconnect that outlasts the budget is cancelled and the instances after
\* it are not reached
RECURSIVE shutdown(_, _)
shutdown(insts, dbs) ==
    IF insts = <<>> THEN [insts |-> <<>>, timed_out |-> FALSE, attempted |-> <<>>]
    ELSE IF Head(insts)._connected /\ Head(dbs) = "hangs"
        THEN [insts |-> insts, timed_out |-> TRUE, attempted |-> <<Head(insts).name>>]
    ELSE LET rest == shutdown(Tail(insts), Tail(dbs))
             closed == IF Head(insts)._connected THEN disconnect(Head(insts), Head(dbs))
                       ELSE Head(insts)
         IN  [insts |-> <<closed>> \o rest.insts, timed_out |-> rest.timed_out,
              attempted |-> <<Head(insts).name>> \o rest.attempted]

\* what the process exits with after the cleanup of run_mcp_server: the
\* timeout is logged ("Cleanup timeout, forcing exit"), main catches
\* KeyboardInterrupt and SystemExit and returns
exit_code_after_cleanup(timed_out) == "0"

\* the finally clause of run_mcp_server: `if watcher: watcher.stop()` comes
\* before the cleanup tasks are awaited
stop_watcher(watcher) == IF watcher THEN <<"watcher.stop">> ELSE <<>>

\* SIGINT or SIGTERM: the finally clause of run_mcp_server, then main
\* returns (watcher: whether watcher.enabled started one)
Shutdown(watcher) ==
    /\ exit_code = NotExited
    /\ \E dbs \in [1..Len(_instances) -> ShutdownBehaviours] :
       \E down \in {shutdown(_instances, dbs)} :
            /\ _instances' = down.insts
            /\ cleanup' = stop_watcher(watcher) \o down.attempted
            /\ exit_code' = exit_code_after_cleanup(down.timed_out)
            /\ last' = Last("shutdown",
                            IF down.timed_out THEN "Cleanup timeout" ELSE "cleaned up",
                            "", read_only(down.insts, disk, _current_instance),
                            NoExc, NoResponse)
            /\ _shutdown_requested' = TRUE
            /\ UNCHANGED <<tasks, _last_modified, queue, now, delivered, probe>>
            /\ UNCHANGED <<allow_instance_management, disk, _current_instance, load_pending,
                           handled, _session_initialized>>

NextWithShutdown == Next \/ Shutdown(FALSE)

SpecWithShutdown == Init /\ [][NextWithShutdown]_vars

\* the HTTP server with its watcher, up to the end of the process
HttpNextWithShutdown == HttpNext \/ Shutdown(TRUE)

HttpSpecWithShutdown == Init /\ [][HttpNextWithShutdown]_vars

\* signal_handler(signum, frame): the first signal sets _shutdown_requested
\* and raises KeyboardInterrupt, a later one calls cleanup() and sys.exit(1)
signal_handler(requested) ==
    IF requested THEN [requested |-> TRUE, raised |-> "SystemExit", code |-> "1"]
    ELSE [requested |-> TRUE, raised |-> "KeyboardInterrupt", code |-> ""]

\* SIGINT or SIGTERM reaches the process.  KeyboardInterrupt ends
\* asyncio.gather and the finally clause of run_mcp_server begins: the
\* watcher is stopped and the cleanup tasks are awaited.  SystemExit leaves
\* the event loop with the cleanup cut short and reaches the except clause
\* of main; cleanup() finds the watcher stopped
Signal ==
    /\ exit_code = NotExited
    /\ \E h \in {signal_handler(_shutdown_requested)} :
            /\ _shutdown_requested' = h.requested
            /\ cleanup' = IF h.raised = "KeyboardInterrupt" THEN stop_watcher(TRUE)
                          ELSE cleanup
            /\ exit_code' = IF h.raised = "SystemExit" THEN exit_code_after_cleanup(TRUE)
                            ELSE exit_code
            /\ last' = Last("signal", h.raised, h.code,
                            read_only(_instances, disk, _current_instance), NoExc, NoResponse)
            /\ UNCHANGED <<tasks, _last_modified, queue, now, delivered, probe>>
            /\ UNCHANGED <<allow_instance_management, _instances, disk, _current_instance,
                           load_pending, handled, _session_initialized>>

\* the cleanup tasks of the graceful path end, within the budget or at its
\* end, and main returns
FinishCleanup ==
    /\ exit_code = NotExited
    /\ _shutdown_requested
    /\ \E dbs \in [1..Len(_instances) -> ShutdownBehaviours] :
       \E down \in {shutdown(_instances, dbs)} :
            /\ _instances' = down.insts
            /\ cleanup' = cleanup \o down.attempted
            /\ exit_code' = exit_code_after_cleanup(down.timed_out)
            /\ last' = Last("shutdown",
                            IF down.timed_out THEN "Cleanup timeout" ELSE "cleaned up",
                            "", read_only(down.insts, disk, _current_instance),
                            NoExc, NoResponse)
            /\ UNCHANGED other_vars
            /\ UNCHANGED <<allow_instance_management, disk, _current_instance, load_pending,
                           handled, _session_initialized>>

\* the HTTP server under signals: once a signal has ended asyncio.gather no
\* request, load step or watcher event is handled any more
SignalNext == (~_shutdown_requested /\ HttpNext) \/ Signal \/ FinishCleanup

SignalSpec == Init /\ [][SignalNext]_vars

\* the rest of the process, which the watcher subprocess does not touch
process_vars ==
    <<allow_instance_management, _instances, disk, _current_instance, load_pending, handled,
      _session_initialized, exit_code, last, cleanup, tasks, probe, _shutdown_requested>>

\* mutant: every event passes
debounced_never(last_modified, path, current_time) == FALSE

\* _handle_change: `current_time - last_time < self.debounce_delay`, with
\* last_time = self._last_modified.get(path, 0)
debounced(last_modified, path, current_time) ==
    current_time - (IF HasKey(last_modified, path) THEN last_modified[path] ELSE 0)
        < debounce_delay

\* _handle_change(path, event_type) at current_time: an event that is not
\* debounced is recorded and put on the queue; put_nowait raises when the
\* queue is full and the event is skipped (put: whether it was queued)
_handle_change(last_modified, q, current_time, path, event_type) ==
    IF debounced(last_modified, path, current_time)
        THEN [_last_modified |-> last_modified, queue |-> q, put |-> FALSE]
    ELSE IF Len(q) >= maxsize
        THEN [_last_modified |-> Put(last_modified, path, current_time), queue |-> q,
              put |-> FALSE]
    ELSE [_last_modified |-> Put(last_modified, path, current_time),
          queue |-> Append(q, [provider |-> path, event_type |-> event_type]),
          put |-> TRUE]

\* watchdog reports a change of <data>/<provider>/mcp_settings.json
FileChange ==
    \E event \in WatcherEvents :
    \E handled_change \in {_handle_change(_last_modified, queue, now, event.provider,
                                          event.event_type)} :
        /\ _last_modified' = handled_change._last_modified
        /\ queue' = handled_change.queue
        /\ delivered' = IF handled_change.put THEN Put(delivered, event.provider, now)
                        ELSE delivered
        /\ UNCHANGED <<now, process_vars>>

\* time passes in the watcher subprocess
Tick ==
    /\ now < MaxTime
    /\ now' = now + 1
    /\ UNCHANGED <<_last_modified, queue, delivered, process_vars>>

\* poll_watcher_queue takes an event: queue.get_nowait()
QueueGet ==
    /\ queue # <<>>
    /\ queue' = Tail(queue)
    /\ UNCHANGED <<_last_modified, now, delivered, process_vars>>

\* the watcher subprocess and the poller of its queue
WatcherNext == FileChange \/ Tick \/ QueueGet

\* the watcher started on an empty data directory

\* a server that handles no request: management off, nothing left to load
IdleServerInit == Init /\ ~allow_instance_management /\ load_pending = {}

WatcherSpec == IdleServerInit /\ [][WatcherNext]_vars

\* what a validator call leaves behind
Probe(fn, input, result) ==
    [fn |-> fn, input |-> input, raised |-> result.raised, output |-> result.output]

\* everything but the validator under test
server_vars ==
    <<allow_instance_management, _instances, disk, _current_instance, load_pending, handled,
      _session_initialized, exit_code, last, cleanup, tasks, _last_modified, queue, now,
      delivered, _shutdown_requested>>

ValidateProviderName ==
    \E name \in NameInputs :
        /\ probe' = Probe("validate_provider_name", name, validate_provider_name(name))
        /\ UNCHANGED server_vars

ValidateInstanceName ==
    \E name \in NameInputs :
        /\ probe' = Probe("validate_instance_name", name, validate_instance_name(name))
        /\ UNCHANGED server_vars

\* the base directory handed to validate_path: "data", here "d"
base_path == <<<<"d">>>>

ValidatePath ==
    \E path \in PathInputs :
        /\ probe' = Probe("validate_path", path, validate_path(path, base_path))
        /\ UNCHANGED server_vars

\* InputValidator called on its own, with an empty data directory

ValidatorNext == ValidateProviderName \/ ValidateInstanceName \/ ValidatePath

ValidatorSpec == IdleServerInit /\ [][ValidatorNext]_vars

(* Requests handled concurrently.  Each request runs in its own asyncio    *)
(* task; a task runs until it reaches an await that suspends it (transport *)
(* open in connect(), session close in disconnect(), the tools/call round  *)
(* trip) and goes on from there once the child has answered.  Nothing in   *)
(* MCPClientManager or MCPClientInstance takes a lock.                     *)

\* what the tasks leave alone
task_frame ==
    <<allow_instance_management, _current_instance, load_pending, handled,
      _session_initialized, exit_code, last, cleanup, _last_modified, queue, now, delivered,
      probe, _shutdown_requested>>

\* a task reaches an await of the method op on the instance obj
Suspended(op, name, pc, obj) == [Idle EXCEPT !.op = op, !.name = name, !.pc = pc, !.obj = obj]

\* a task's method has returned or raised exc
Done(op, name, exc) == [Idle EXCEPT !.op = op, !.name = name, !.pc = "done", !.exc = exc.type]

\* mutant: disable closes the session of the instance as well
BeginDisableDisconnecting(t) ==
    /\ tasks[t].pc = "idle"
    /\ \E name \in InstanceNames :
       \E r \in {disable_instance(_instances, name)} :
            /\ _instances' = IF Raised(r.exc) THEN r.insts
                             ELSE Store(r.insts, disconnect(Lookup(r.insts, name), "ok"))
            /\ tasks' = [tasks EXCEPT ![t] = Done("disable", name, r.exc)]
            /\ UNCHANGED <<disk, task_frame>>

\* disable(name): disable_instance has no await
BeginDisable(t) ==
    /\ tasks[t].pc = "idle"
    /\ \E name \in InstanceNames :
       \E r \in {disable_instance(_instances, name)} :
            /\ _instances' = r.insts
            /\ tasks' = [tasks EXCEPT ![t] = Done("disable", name, r.exc)]
            /\ UNCHANGED <<disk, task_frame>>

\* enable(name) up to the first await of connect().  Without an await
\* (unknown name, session connected, create_transport raises) the method runs
\* to its end; otherwise the active flag is set, is_connected() and
\* connect()'s own test of _connected are passed and the transport is created
BeginEnable(t) ==
    /\ tasks[t].pc = "idle"
    /\ \E name \in InstanceNames :
       LET instance == [Lookup(_instances, name) EXCEPT !.is_active = TRUE,
                                                        !._transport = TRUE]
       IN   /\ IF \/ ~Registered(_instances, name)
                  \/ Lookup(_instances, name)._connected
                  \/ Raised(create_transport(Lookup(_instances, name).transport_type))
                   THEN \E r \in {enable_instance(_instances, name,
                                                  CHOOSE cb \in HealthyConnects : TRUE)} :
                            /\ _instances' = r.insts
                            /\ tasks' = [tasks EXCEPT ![t] = Done("enable", name, r.exc)]
               ELSE /\ _instances' = Store(_instances, instance)
                    /\ tasks' = [tasks EXCEPT
                                    ![t] = Suspended("enable", name, "connecting", instance)]
            /\ UNCHANGED <<disk, task_frame>>

\* add("p1", config) up to the first await of connect().  Without an await
\* (name registered, config not active, create_transport raises) the method
\* runs to its end; otherwise the name is tested, the config file written and
\* a new MCPClientInstance made
BeginAdd(t) ==
    /\ tasks[t].pc = "idle"
    /\ \E config \in ValidConfigs :
       LET name == config["name"]
           instance == MCPClientInstance(name, "p1", config["type"], config["isActive"])
       IN   IF \/ Registered(_instances, name)
               \/ ~instance.is_active
               \/ Raised(create_transport(instance.transport_type))
                THEN \E r \in {add_instance(_instances, disk, "p1", config,
                                            CHOOSE cb \in HealthyConnects : TRUE)} :
                        /\ _instances' = r.insts
                        /\ disk' = r.disk
                        /\ tasks' = [tasks EXCEPT ![t] = Done("add", name, r.exc)]
                        /\ UNCHANGED task_frame
            ELSE /\ disk' = [disk EXCEPT !["p1"] = JsonFile(Put(config, "provider", "p1"))]
                 /\ tasks' = [tasks EXCEPT
                                ![t] = Suspended("add", name, "connecting",
                                                 [instance EXCEPT !._transport = TRUE])]
                 /\ UNCHANGED <<_instances, task_frame>>

\* the child answers the handshake of a connect() a task is suspended in, or
\* fails it: enable_instance returns or raises; _create_instance_from_config
\* stores the new instance under its name, whatever is there, or raises
FinishConnect(t) ==
    /\ tasks[t].pc = "connecting"
    /\ \E cb \in ConnectBehaviours :
       LET name == tasks[t].name
           registered == Registered(_instances, name)
           \* enable holds the registry's object, add its own new one
           obj == IF tasks[t].op = "enable" /\ registered THEN Lookup(_instances, name)
                  ELSE tasks[t].obj
           r == handshake(obj, cb)
       IN   /\ _instances' =
                    IF tasks[t].op = "enable"
                        THEN IF registered THEN Store(_instances, r.inst) ELSE _instances
                    ELSE IF Raised(r.exc) THEN _instances
                    ELSE Store(_instances, r.inst)
            /\ tasks' = [tasks EXCEPT
                            ![t] = [Done(tasks[t].op, name, r.exc) EXCEPT
                                        !.obj = r.inst,
                                        \* a session connected on an instance that
                                        \* remove_instance has dropped meanwhile
                                        !.orphan = tasks[t].op = "enable" /\ ~registered
                                                        /\ r.inst._connected]]
            /\ UNCHANGED <<disk, task_frame>>

\* remove(name) up to the await in disconnect(); an instance that is not
\* connected is dropped without an await
BeginRemove(t) ==
    /\ tasks[t].pc = "idle"
    /\ \E name \in InstanceNames :
            IF ~Registered(_instances, name) \/ ~Lookup(_instances, name)._connected
                THEN \E r \in {remove_instance(_instances, disk, name, "ok")} :
                        /\ _instances' = r.insts
                        /\ disk' = r.disk
                        /\ tasks' = [tasks EXCEPT ![t] = Done("remove", name, r.exc)]
                        /\ UNCHANGED task_frame
            ELSE /\ tasks' = [tasks EXCEPT
                                ![t] = Suspended("remove", name, "disconnecting",
                                                 Lookup(_instances, name))]
                 /\ UNCHANGED <<_instances, disk, task_frame>>

\* the session of a remove() has closed, or closing it raised: the config
\* file is unlinked if it is there and `del self._instances[name]` runs,
\* which raises KeyError when the name has gone meanwhile
FinishDisconnect(t) ==
    /\ tasks[t].pc = "disconnecting"
    /\ \E db \in DisconnectBehaviours :
       LET name == tasks[t].name
       IN   /\ disk' = [disk EXCEPT ![tasks[t].obj.provider] = NoFile]
            /\ IF Registered(_instances, name)
                   THEN /\ _instances' = Delete(_instances, name)
                        /\ tasks' = [tasks EXCEPT
                                        ![t] = [Done("remove", name, NoExc) EXCEPT
                                                    !.obj = disconnect(tasks[t].obj, db)]]
               ELSE /\ UNCHANGED _instances
                    /\ tasks' = [tasks EXCEPT
                                    ![t] = Done("remove", name,
                                                BuiltinError("KeyError", "'" \o name \o "'"))]
            /\ UNCHANGED task_frame

\* call(name, tool) up to the await of session.call_tool: get_instance and
\* the guards of call_tool, then the request goes to the child
BeginCall(t) ==
    /\ tasks[t].pc = "idle"
    /\ \E name \in InstanceNames, tool_name \in Tools :
       LET found == get_instance(_instances, name)
           guard == IF Raised(found) THEN found
                    ELSE call_tool_guard(Lookup(_instances, name), tool_name)
       IN   /\ tasks' = [tasks EXCEPT
                            ![t] = IF Raised(guard) THEN Done("call", name, guard)
                                   ELSE Suspended("call", name, "calling",
                                                  Lookup(_instances, name))]
            /\ UNCHANGED <<_instances, disk, task_frame>>

\* the child answers a tools/call, raises, or T runs out: call_tool from its
\* await on, for the tool whose guards the task passed
FinishCall(t) ==
    /\ tasks[t].pc = "calling"
    /\ \E b \in CallBehaviours :
            /\ tasks' = [tasks EXCEPT
                            ![t] = Done("call", tasks[t].name,
                                        call_tool(tasks[t].obj,
                                                  CHOOSE tool_name \in tasks[t].obj._tools : TRUE,
                                                  b).exc)]
            /\ UNCHANGED <<_instances, disk, task_frame>>

\* the background load, one file at a time, between the tasks
LoadBetweenTasks ==
    /\ \A t \in TaskIds : tasks[t].pc \in {"idle", "done"}
    /\ LoadConfigFile

ConcurrentNext ==
    \/ LoadBetweenTasks
    \/ \E t \in TaskIds :
            \/ BeginDisable(t) \/ BeginEnable(t) \/ BeginAdd(t) \/ BeginRemove(t)
            \/ BeginCall(t) \/ FinishConnect(t) \/ FinishDisconnect(t) \/ FinishCall(t)

\* management allowed, two requests at a time
ConcurrentInit == Init /\ allow_instance_management

ConcurrentSpec == ConcurrentInit /\ [][ConcurrentNext]_vars

(* ------------------------------ claims -------------------------------- *)

\* the names and active flags the registry holds, in order
registry_view(insts) ==
    [i \in 1..Len(insts) |-> [name |-> insts[i].name, active |-> insts[i].is_active]]

\* the entry list() shows for a registered name
list_entry(insts, name) == CHOOSE e \in Range(list_instances(insts)) : e.name = name

(* C1: while allow_instance_management is false, no upstream tools/call,   *)
(* whatever its tool name, arguments and the children's behaviour, changes *)
(* the registry: the names it holds and their active flags stay as they    *)
(* are, and a call to a management tool is refused with a permission error *)
(* before any router method runs.                                          *)
C1_ManagementGated ==
    ~allow_instance_management =>
        \A name \in ToolCallNames :
        \A arguments \in ArgumentInputs(name) :
        \A cb \in ConnectInputs(branch_of(name)) :
        \A db \in DisconnectInputs(branch_of(name)) :
        \A b \in CallInputs(branch_of(name)) :
            LET t == try_body(allow_instance_management, _instances, disk, _current_instance,
                              name, arguments, cb, db, b)
            IN  /\ registry_view(t.r.insts) = registry_view(_instances)
                /\ name \in management_tools =>
                       t.branch = "" /\ t.caught.type = "PermissionError"

\* a management call was just refused while the registry holds an instance
C1_Witness ==
    /\ ~allow_instance_management
    /\ last.layer = "facade"
    /\ last.op \in management_tools
    /\ last.caught = "PermissionError"
    /\ Len(_instances) > 0

\* the wire code of each exception class, INTERNAL_ERROR for the rest
ExpectedCode(type) ==
    CASE type = "ConfigurationError" -> "CONFIG_ERROR"
      [] type = "ValidationError" -> "VALIDATION_ERROR"
      [] type = "InstanceNotFoundError" -> "INSTANCE_NOT_FOUND"
      [] type = "ToolNotFoundError" -> "TOOL_NOT_FOUND"
      [] type = "TimeoutError" -> "TIMEOUT"
      [] OTHER -> "INTERNAL_ERROR"

(* C2: every upstream tool call whose handling fails inside the facade or  *)
(* the router returns normally with exactly one text part whose JSON       *)
(* carries the error and the wire code of the exception; call_tool_impl    *)
(* raises nothing.                                                         *)
C2_ErrorsBecomePayloads ==
    (last.layer = "facade" /\ last.caught # "None") =>
        /\ last.outcome = "returned"
        /\ last.parts = 1
        /\ last.code = ExpectedCode(last.caught)
        /\ last.escaped = "None"

(* C3: disable(n) on a connected instance returns "Done", after it list()  *)
(* shows n inactive and every call(n, ...) raises ConfigurationError       *)
(* without reaching the child; a following enable(n) returns "Done",       *)
(* list() shows n active and call(n, t) for every catalogue tool t is sent *)
(* and succeeds when the child answers.                                    *)
C3_DisableThenEnable ==
    \A n \in Keys(_instances) :
        Lookup(_instances, n)._connected =>
            LET d == disable(_instances, disk, _current_instance, n)
            IN  /\ d.status = "Done"
                /\ ~list_entry(d.insts, n).active
                /\ \A t \in ToolInputs, b \in CallBehaviours :
                       LET c == call(d.insts, d.disk, d.current, n, t, b)
                       IN  c.exc.type = "ConfigurationError" /\ ~c.sent
                /\ \A cb \in ConnectBehaviours :
                       LET e == enable(d.insts, d.disk, d.current, n, cb)
                       IN  /\ e.status = "Done"
                           /\ list_entry(e.insts, n).active
                           /\ \A t \in Lookup(_instances, n)._tools :
                                  LET c == call(e.insts, e.disk, e.current, n, t, "ok")
                                  IN  c.sent /\ ~Raised(c.exc)

\* a disable has just turned a connected instance with a catalogue inactive
C3_Witness ==
    /\ last.op = "mcp.router.disable"
    /\ last.status = "Done"
    /\ \E n \in Keys(_instances) :
           /\ Lookup(_instances, n)._connected
           /\ ~Lookup(_instances, n).is_active
           /\ Lookup(_instances, n)._tools # {}

\* the add requests whose config names a registered instance
DuplicateAdds == {a \in AddInputs : HasKey(a.config, "name")
                                    /\ Registered(_instances, a.config["name"])}

AlreadyExists(name) == "Error: Instance '" \o name \o "' already exists"

(* C4 as claimed: add with a config whose name equals a registered         *)
(* instance fails with "Error: Instance 'X' already exists" and leaves the *)
(* registry and every config file as they were.                            *)
C4_DuplicateAddSaysAlreadyExists ==
    \A a \in DuplicateAdds, cb \in ConnectBehaviours :
        LET r == add(_instances, disk, _current_instance, a.provider_name, a.config, cb)
        IN  /\ r.status = AlreadyExists(a.config["name"])
            /\ r.insts = _instances
            /\ r.disk = disk

(* C4 as amended: add with a config that passes validation for its         *)
(* provider and whose name equals a registered instance fails with         *)
(* "Error: Instance 'X' already exists"; a config that fails validation    *)
(* fails with the validation error instead; in both cases the registry and *)
(* every config file are as they were.                                     *)
C4_DuplicateAddRefused ==
    \A a \in DuplicateAdds, cb \in ConnectBehaviours :
        LET r == add(_instances, disk, _current_instance, a.provider_name, a.config, cb)
            invalid == validate_config(Put(a.config, "provider", a.provider_name))
        IN  /\ r.status = IF Raised(invalid) THEN "Error: " \o invalid.message
                          ELSE AlreadyExists(a.config["name"])
            /\ r.insts = _instances
            /\ r.disk = disk

\* a duplicate add has just been refused; the provider directory it named
\* may hold another instance's file or none
C4_Witness ==
    /\ last.op = "mcp.router.add"
    /\ last.status \in {AlreadyExists(n) : n \in InstanceNames}
    /\ \E p \in ProviderNames : disk[p].kind = "none"

(* C5: remove of a name that is not registered raises                      *)
(* InstanceNotFoundError out of the manager and changes nothing: the       *)
(* registry with every session, the current-instance hint and the config   *)
(* files are as before.                                                    *)
C5_RemoveUnknownChangesNothing ==
    \A n \in InstanceNames \ Keys(_instances), db \in DisconnectBehaviours :
        LET m == remove_instance(_instances, disk, n, db)
            r == remove(_instances, disk, _current_instance, n, db)
        IN  /\ m.exc = InstanceNotFoundError(n)
            /\ m.insts = _instances /\ m.disk = disk
            /\ r.insts = _instances /\ r.disk = disk
            /\ r.current = _current_instance

\* an unknown name has just been removed while another instance is
\* registered, selected and has its file on disk
C5_Witness ==
    /\ last.op = "mcp.router.remove"
    /\ last.inner = "InstanceNotFoundError"
    /\ Len(_instances) > 0
    /\ \E p \in ProviderNames : disk[p].kind # "none"

\* the add requests whose config passes validation for its provider and
\* names an instance that is not registered
FreshValidAdds ==
    {a \in AddInputs :
        /\ HasKey(a.config, "name")
        /\ ~Raised(validate_config(Put(a.config, "provider", a.provider_name)))
        /\ ~Registered(_instances, a.config["name"])}

\* the names list() shows
listed_names(insts) == {e.name : e \in Range(list_instances(insts))}

(* C6 as claimed: for every valid config whose name is not registered,     *)
(* add(provider, config) registers the instance, so list() shows its name, *)
(* whatever the child does; a following remove(name) drops it:             *)
(* get_instance(name) raises InstanceNotFoundError and the provider's      *)
(* config file is gone.                                                    *)
C6_AddRegistersRemoveDrops ==
    \A a \in FreshValidAdds, cb \in ConnectBehaviours, db \in DisconnectBehaviours :
        LET n == a.config["name"]
            r == add(_instances, disk, _current_instance, a.provider_name, a.config, cb)
        IN  /\ n \in listed_names(r.insts)
            /\ LET q == remove(r.insts, r.disk, r.current, n, db)
               IN  /\ get_instance(q.insts, n) = InstanceNotFoundError(n)
                   /\ q.disk[a.provider_name] = NoFile

C9_TimeoutKeepsSession ==
    \A n \in Keys(_instances) :
        LET inst == Lookup(_instances, n)
        IN  \A t \in inst._tools :
                (inst._connected /\ inst.is_active) =>
                    LET c == call(_instances, disk, _current_instance, n, t, "timeout")
                    IN  /\ c.sent
                        /\ c.exc.type = "TimeoutError"
                        /\ wire_code(c.exc) = "TIMEOUT"
                        /\ Lookup(c.insts, n) = inst
                        /\ \A u \in inst._tools \ {t} :
                               LET d == call(c.insts, c.disk, c.current, n, u, "ok")
                               IN  d.sent /\ ~Raised(d.exc)

\* a call has just timed out and every registered instance is connected
\* and active with a catalogue of two tools
C9_Witness ==
    /\ last.branch = "call"
    /\ last.inner = "TimeoutError"
    /\ last.sent
    /\ Len(_instances) > 0
    /\ \A i \in 1..Len(_instances) :
           /\ _instances[i]._connected
           /\ _instances[i].is_active
           /\ _instances[i]._tools = Tools

\* the tool names tools/list returns
advertised(allow) == Range(list_tools_impl(allow))

(* C10: tools/list returns exactly use, list, help and call when           *)
(* allow_instance_management is false and exactly those four plus add,     *)
(* remove, disable and enable when it is true, each once.  A tools/call    *)
(* reaches a router method only if its tool is advertised, and a call to   *)
(* an advertised tool reaches the router method of that tool unless the    *)
(* request lacks an argument the switch reads (KeyError).                  *)
C10_AdvertisedIffDispatched ==
    /\ advertised(allow_instance_management) =
           {"mcp.router.use", "mcp.router.list", "mcp.router.help", "mcp.router.call"}
           \cup (IF allow_instance_management
                    THEN {"mcp.router.add", "mcp.router.remove", "mcp.router.disable",
                          "mcp.router.enable"}
                 ELSE {})
    /\ Len(list_tools_impl(allow_instance_management))
           = Cardinality(advertised(allow_instance_management))
    /\ last.layer = "facade" =>
           /\ last.branch # "" => last.op \in advertised(allow_instance_management)
           /\ last.op \in advertised(allow_instance_management) =>
                  \/ last.branch # "" /\ last.branch = branch_of(last.op)
                  \/ last.caught = "KeyError"

\* with management off a read-only meta-tool has just been dispatched, and
\* with management on a management tool has
C10_Witness ==
    /\ last.layer = "facade"
    /\ last.branch # ""
    /\ \/ ~allow_instance_management /\ last.op = "mcp.router.call"
       \/ allow_instance_management /\ last.op = "mcp.router.disable"

\* the configs a file of a provider directory holds, each with the provider
\* _create_instance_from_config gives it
file_entries(file, provider) ==
    LET configs == CASE file.kind = "json" -> <<file.data>>
                     [] file.kind = "mcpServers" -> file.servers
                     [] OTHER -> <<>>
    IN  [i \in 1..Len(configs) |->
            Put(configs[i], "provider",
                IF HasKey(configs[i], "provider") THEN configs[i]["provider"] ELSE provider)]

\* the file parses and every entry passes validate_config
valid_file(file, provider) ==
    /\ file.kind \in {"json", "mcpServers"}
    /\ \A c \in Range(file_entries(file, provider)) : ~Raised(validate_config(c))

C12_EveryActiveConfigListed ==
    (load_pending = {} /\ handled = 0) =>
        \A p \in ProviderNames :
            valid_file(disk[p], p) =>
                \A c \in Range(file_entries(disk[p], p)) :
                    (IF HasKey(c, "isActive") THEN c["isActive"] ELSE TRUE) => c["name"] \in listed_names(_instances)

(* C13 as claimed: disconnect() raises nothing, changes nothing on a       *)
(* session that is not connected, and whenever it returns the session is   *)
(* disconnected and its catalogue is empty, whether closing the session    *)
(* and the transport went through or not.                                  *)
C13_DisconnectAlwaysDisconnects ==
    \A i \in 1..Len(_instances), db \in DisconnectBehaviours :
        LET d == disconnect(_instances[i], db)
        IN  /\ ~_instances[i]._connected => d = _instances[i]
            /\ ~d._connected
            /\ d._tools = {}

(* C14 as claimed: when the child stops answering at a step of the         *)
(* handshake, connect() of a session that is not connected raises          *)
(* TimeoutError and leaves the session disconnected.  (A child silent at   *)
(* initialize is outside ConnectBehaviours: that await has no timeout and  *)
(* connect() does not return.)                                             *)
C14_SilentChildRaisesTimeout ==
    \A i \in 1..Len(_instances), b \in {cb \in ConnectBehaviours : cb.how = "timeout"} :
        ~_instances[i]._connected =>
            LET r == connect(_instances[i], b)
            IN  /\ r.exc.type = "TimeoutError"
                /\ ~r.inst._connected

(* C15 as claimed: the flag of the HTTP transport is false at the start,   *)
(* only a handled initialize request makes it true, it never goes back to  *)
(* false, and while it is false a request with a method other than         *)
(* initialize and ping is answered with error -32002 and reaches neither   *)
(* list_tools_impl nor call_tool_impl.                                     *)
C15_UninitializedRefusesAllButInitializeAndPing ==
    /\ [](handled = 0 => ~_session_initialized)
    /\ [][/\ _session_initialized => _session_initialized'
          /\ (~_session_initialized /\ _session_initialized') =>
                (last'.layer = "http" /\ last'.op = "initialize")
          /\ (last'.layer = "http" /\ ~_session_initialized /\ last'.op \in HttpMethods
                /\ last'.op \notin {"initialize", "ping"}) =>
                    /\ last'.rpc_error = -32002
                    /\ last'.outcome = ""
                    /\ UNCHANGED <<_instances, disk, _current_instance>>]_vars

(* C15, amended: as above, with notifications/initialized as the third     *)
(* method that is not refused while the flag is false: it is acknowledged  *)
(* without an error, leaves the flag false and reaches neither             *)
(* list_tools_impl nor call_tool_impl.                                     *)
C15_UninitializedRefusesAllButThree ==
    /\ [](handled = 0 => ~_session_initialized)
    /\ [][/\ _session_initialized => _session_initialized'
          /\ (~_session_initialized /\ _session_initialized') =>
                (last'.layer = "http" /\ last'.op = "initialize")
          /\ (last'.layer = "http" /\ ~_session_initialized /\ last'.op \in HttpMethods
                /\ last'.op \notin {"initialize", "ping", "notifications/initialized"}) =>
                    /\ last'.rpc_error = -32002
                    /\ last'.outcome = ""
                    /\ UNCHANGED <<_instances, disk, _current_instance>>
          /\ (last'.layer = "http" /\ ~_session_initialized
                /\ last'.op = "notifications/initialized") =>
                    /\ last'.rpc_error = 0
                    /\ last'.outcome = ""
                    /\ UNCHANGED <<_instances, disk, _current_instance,
                                   _session_initialized>>]_vars

\* a tools/call was refused before initialize, with instances loaded
C15_Witness ==
    /\ last.layer = "http"
    /\ last.op = "tools/call"
    /\ last.rpc_error = -32002
    /\ ~_session_initialized
    /\ Len(_instances) > 0

(* C16: what help() returns has a key for a name exactly when an instance  *)
(* of that name is registered, active and connected, and the value under   *)
(* the key is that instance's catalogue.                                   *)
C16_HelpKeysActiveConnected ==
    LET helped == get_all_tools(_instances)
    IN  /\ \A i \in 1..Len(_instances) :
                (_instances[i].is_active /\ _instances[i]._connected) <=>
                    _instances[i].name \in DOMAIN helped
        /\ \A n \in DOMAIN helped :
                \E i \in 1..Len(_instances) :
                    _instances[i].name = n /\ helped[n] = _instances[i]._tools

\* help was called with an instance that has a key and one that has none
C16_Witness ==
    /\ last.branch = "help"
    /\ last.outcome = "returned"
    /\ \E i, j \in 1..Len(_instances) :
            /\ _instances[i].is_active /\ _instances[i]._connected
            /\ _instances[i]._tools # {}
            /\ ~_instances[j].is_active

\* the position of a name in list()
listed_at(insts, name) == CHOOSE i \in 1..Len(insts) : list_instances(insts)[i].name = name

(* C17: a step that is none of add, remove, enable, disable and load       *)
(* leaves what list() returns as it is, and list() is in registration      *)
(* order: names that stay keep their relative order and a newly registered *)
(* name comes after all that were there.                                   *)
C17_ListStableAndOrdered ==
    [][/\ (\/ last'.layer \in {"tools_list", "watcher"}
           \/ (last'.layer = "facade"
                 /\ last'.branch \notin {"add", "remove", "enable", "disable"})) =>
                list_instances(_instances') = list_instances(_instances)
       /\ \A n, m \in listed_names(_instances) \cap listed_names(_instances') :
                listed_at(_instances, n) < listed_at(_instances, m) =>
                    listed_at(_instances', n) < listed_at(_instances', m)
       /\ \A n \in listed_names(_instances') \ listed_names(_instances) :
          \A m \in listed_names(_instances) \cap listed_names(_instances') :
                listed_at(_instances', m) < listed_at(_instances', n)]_vars

\* list was called with two instances registered
C17_Witness ==
    /\ last.layer = "facade"
    /\ last.branch = "list"
    /\ last.outcome = "returned"
    /\ Len(_instances) = 2

(* C18 as claimed: once the loader is through, every instance it           *)
(* registered has as provider the directory whose mcp_settings.json holds  *)
(* its config.                                                             *)
C18_ProviderIsDirectory ==
    handled = 0 =>
        \A i \in 1..Len(_instances) :
            /\ _instances[i].provider \in ProviderNames
            /\ \E c \in Range(file_entries(disk[_instances[i].provider],
                                           _instances[i].provider)) :
                    c["name"] = _instances[i].name

(* C19: handling a watcher event leaves the registry, every instance's     *)
(* active flag, connection state and catalogue, the current instance and   *)
(* the config files as they are, and raises nothing.                       *)
C19_WatcherChangesNothing ==
    [][last'.layer = "watcher" =>
            /\ UNCHANGED <<_instances, _current_instance, disk,
                           allow_instance_management, handled, exit_code>>
            /\ last'.inner = NoExc.type
            /\ last'.escaped = NoExc.type]_vars

\* a deletion was reported while an instance was connected
C19_Witness ==
    /\ last.layer = "watcher"
    /\ last.op = "deleted"
    /\ \E i \in 1..Len(_instances) : _instances[i]._connected /\ _instances[i]._tools # {}

(* C20 as claimed: once the process has exited after a shutdown, either    *)
(* the cleanup finished within its 10 s budget or the exit code is 1.      *)
C20_BudgetOrExitOne ==
    exit_code # NotExited => (last.op = "cleaned up" \/ exit_code = "1")

(* C30 as claimed: on shutdown the watcher is stopped before the first     *)
(* disconnect, and disconnect() is called on every registered instance,    *)
(* in order, whatever the disconnects before it did.                       *)
C30_WatcherFirstThenEveryInstance ==
    exit_code # NotExited =>
        /\ Len(cleanup) > 0 /\ cleanup[1] = "watcher.stop"
        /\ Tail(cleanup) = [i \in 1..Len(_instances) |-> _instances[i].name]

(* C30, amended: on shutdown the watcher is stopped before the first       *)
(* disconnect, and unless the 10 s budget ends the cleanup first,          *)
(* disconnect() is called on every registered instance, also when an       *)
(* earlier instance's disconnect raised.                                   *)
C30_WatcherFirstThenEveryInstanceInBudget ==
    exit_code # NotExited =>
        /\ Len(cleanup) > 0 /\ cleanup[1] = "watcher.stop"
        /\ \A i \in 2..Len(cleanup) : cleanup[i] # "watcher.stop"
        /\ last.op = "cleaned up" =>
                Tail(cleanup) = [i \in 1..Len(_instances) |-> _instances[i].name]

\* the cleanup went through two instances and closing the first one raised:
\* it is still flagged connected
C30_Witness ==
    /\ exit_code # NotExited
    /\ last.op = "cleaned up"
    /\ Len(_instances) = 2
    /\ _instances[1]._connected
    /\ Len(cleanup) = 3

(* C21 as claimed: a name validate_provider_name or validate_instance_name  *)
(* returns holds none of the characters ; | & $ ` newline, carriage return. *)
C21_AcceptedNamesHaveNoMetacharacter ==
    (probe.fn \in {"validate_provider_name", "validate_instance_name"} /\ ~probe.raised) =>
        \A i \in 1..Len(probe.output) : probe.output[i] \notin DangerousChars

\* the resolved path lies inside the resolved base: the base's components
\* are the first components of the path
inside(target, base) ==
    Len(base) <= Len(target) /\ SubSeq(target, 1, Len(base)) = base

(* C22 as claimed: validate_path(p, base) raises ValidationError or returns *)
(* a resolved path that is the resolved base directory or lies below it.   *)
C22_ValidatedPathInsideBase ==
    (probe.fn = "validate_path" /\ ~probe.raised) =>
        inside(probe.output, resolve(<<>>, cwd \o base_path))

(* C23: a registered session is flagged connected exactly when its         *)
(* transport is open, its session started and it holds a catalogue (every  *)
(* tools/list response of the model has a tool), and connect() on a        *)
(* session that is not connected ends with the flag set exactly when the   *)
(* child went through the whole handshake and answered tools/list.         *)
C23_ConnectedIffHandshakeAndCatalogue ==
    \A i \in 1..Len(_instances) :
        /\ _instances[i]._connected <=>
                (_instances[i]._transport /\ _instances[i]._session
                    /\ _instances[i]._tools # {})
        /\ ~_instances[i]._connected =>
                \A b \in ConnectBehaviours :
                    LET r == connect(_instances[i], b)
                    IN  /\ r.inst._connected <=> b.fail_at = "none"
                        /\ r.inst._connected => r.inst._tools = Range(b.tools)

\* an enable stopped at tools/list: the handshake is done, there is no
\* catalogue, and the session is not flagged connected, next to one that is
C23_Witness ==
    /\ last.branch = "enable"
    /\ last.inner = "ConfigurationError"
    /\ \E i, j \in 1..Len(_instances) :
            /\ _instances[i]._connected
            /\ _instances[j]._transport /\ _instances[j]._session
            /\ ~_instances[j]._connected

(* C27 as claimed: after a connect() the catalogue has as many entries as  *)
(* the child's tools/list response had tools, whatever list it returned.   *)
C27_CatalogueSizeIsResponseSize ==
    \A i \in 1..Len(_instances), b \in HealthyConnects :
        ~_instances[i]._connected =>
            LET r == connect(_instances[i], b)
            IN  r.inst._connected => Cardinality(r.inst._tools) = Len(b.tools)

(* C28 as claimed: no exception leaves handle_http, whatever the body of   *)
(* the request: one raised while the request is handled, such as the one   *)
(* that leaves call_tool_impl, is answered with error -32603.              *)
C28_HandlerErrorsBecomeInternalError ==
    last.layer = "http" =>
        /\ last.escaped = NoExc.type
        /\ last.outcome = "raised" => last.rpc_error = -32603

\* an event for the path would pass the debounce now: the path has had no
\* event put on the queue, or the last one was put debounce_delay ago or more
\* and none was skipped since
due(path) ==
    /\ HasKey(delivered, path) => now - delivered[path] >= debounce_delay
    /\ HasKey(_last_modified, path) => now - _last_modified[path] >= debounce_delay

(* C29 as claimed: an event for a path is put on the queue only when no    *)
(* event for that path was put on it less than debounce_delay before, and  *)
(* an event for a path that is due is put on the queue whatever events the *)
(* other paths had.                                                        *)
C29_DebouncePerPath ==
    /\ [](\A event \in WatcherEvents :
            due(event.provider) =>
                _handle_change(_last_modified, queue, now, event.provider,
                               event.event_type).put)
    /\ [][\A path \in ProviderNames :
            (HasKey(delivered', path) /\ (HasKey(delivered, path) => delivered'[path] # delivered[path])) =>
                /\ HasKey(delivered, path) => delivered'[path] - delivered[path] >= debounce_delay
                /\ Len(queue') = Len(queue) + 1
                /\ queue'[Len(queue')].provider = path]_vars

(* C29, amended: as above, but an event that is due is put on the queue    *)
(* only if the queue has room: when it is full the event is skipped, also  *)
(* when the events filling it are another path's.  Whether an event is     *)
(* debounced depends on its own path's events alone.                       *)
C29_DebouncePerPathWithRoom ==
    /\ [](\A event \in WatcherEvents :
            /\ (due(event.provider) /\ Len(queue) < maxsize) =>
                    _handle_change(_last_modified, queue, now, event.provider,
                                   event.event_type).put
            /\ \A other \in ProviderNames \ {event.provider} :
                    LET r == _handle_change(_last_modified, queue, now, event.provider,
                                            event.event_type)
                    IN  HasKey(r._last_modified, other) = HasKey(_last_modified, other)
                        /\ (HasKey(_last_modified, other) =>
                                r._last_modified[other] = _last_modified[other]))
    /\ [][\A path \in ProviderNames :
            (HasKey(delivered', path) /\ (HasKey(delivered, path) => delivered'[path] # delivered[path])) =>
                /\ HasKey(delivered, path) => delivered'[path] - delivered[path] >= debounce_delay
                /\ Len(queue') = Len(queue) + 1
                /\ queue'[Len(queue')].provider = path]_vars

\* the queue holds two events of one path, and the other path has had one
C29_Witness ==
    /\ Len(queue) = 2
    /\ queue[1].provider = queue[2].provider
    /\ \A path \in ProviderNames : HasKey(delivered, path)

(* C24 as claimed: connect() on a session that is connecting or connected  *)
(* is a no-op.  On a connected session it is: enable leaves the session as *)
(* it was.  On a connecting one it is not: no two requests are ever inside *)
(* connect() of the same session.                                          *)
C24_ConnectWhileConnectingOrConnectedIsNoOp ==
    /\ [](\A t1, t2 \in TaskIds :
            (/\ tasks[t1].op = "enable" /\ tasks[t1].pc = "connecting"
             /\ tasks[t2].op = "enable" /\ tasks[t2].pc = "connecting"
             /\ tasks[t1].name = tasks[t2].name) => t1 = t2)
    /\ [][\A t \in TaskIds, name \in InstanceNames :
            (/\ tasks[t].pc = "idle" /\ tasks'[t].op = "enable" /\ tasks'[t].name = name
             /\ Registered(_instances, name) /\ Lookup(_instances, name)._connected)
                => /\ tasks'[t].pc = "done"
                   /\ _instances' = Store(_instances, [Lookup(_instances, name)
                                                        EXCEPT !.is_active = TRUE])]_vars

(* C25 as claimed: a session has at most one tools/call in flight, a second *)
(* call is not sent to the child before the first has ended.                *)
C25_OneCallInFlightPerSession ==
    \A t1, t2 \in TaskIds :
        (/\ tasks[t1].op = "call" /\ tasks[t1].pc = "calling"
         /\ tasks[t2].op = "call" /\ tasks[t2].pc = "calling"
         /\ tasks[t1].name = tasks[t2].name) => t1 = t2

(* C26 as claimed: add, remove, enable and disable are serialised, so two   *)
(* overlapping requests end as they would one after the other: of two adds  *)
(* of one name exactly one succeeds, a remove either removes the instance   *)
(* or reports that there is none, and an enable that succeeds has connected *)
(* an instance of the registry.                                             *)
C26_ManagementOperationsSerialised ==
    /\ \A t1, t2 \in TaskIds :
            (/\ tasks[t1].op = "add" /\ tasks[t2].op = "add"
             /\ tasks[t1].name = tasks[t2].name
             /\ tasks[t1].pc = "done" /\ tasks[t2].pc = "done"
             /\ tasks[t1].exc = NoExc.type /\ tasks[t2].exc = NoExc.type) => t1 = t2
    /\ \A t \in TaskIds :
            /\ tasks[t].op = "remove" /\ tasks[t].pc = "done"
                    => tasks[t].exc \in {NoExc.type, InstanceNotFoundError(tasks[t].name).type}
            /\ ~tasks[t].orphan

(* C34 as claimed: a config file that omits `type` is loaded as a stdio     *)
(* instance, and a config file that omits `isActive` is loaded as an       *)
(* active instance (the child answering the handshake).                    *)
C34_MissingTypeIsStdioMissingIsActiveIsActive ==
    \A provider \in ProviderNames, n \in InstanceNames, cb \in HealthyConnects :
        LET no_type == JsonFile([name |-> n, command |-> "srv", isActive |-> TRUE])
            no_flag == JsonFile([name |-> n, type |-> "stdio", command |-> "srv"])
            typed == _load_config_file(_instances, no_type, provider, <<cb>>)
            flagged == _load_config_file(_instances, no_flag, provider, <<cb>>)
        IN  ~Registered(_instances, n) =>
                /\ ~Raised(typed.exc)
                /\ Registered(typed.insts, n)
                /\ Lookup(typed.insts, n).transport_type = "stdio"
                /\ ~Raised(flagged.exc)
                /\ Registered(flagged.insts, n)
                /\ Lookup(flagged.insts, n).is_active

(* C36 as claimed: an add(provider, config) that fails after validation    *)
(* leaves no trace: the provider's mcp_settings.json is as it was and the  *)
(* registry has no new entry.                                              *)
C36_FailedAddLeavesNoTrace ==
    \A provider \in ProviderNames, config \in ValidConfigs, cb \in ConnectBehaviours :
        LET r == add_instance(_instances, disk, provider, config, cb)
        IN  Raised(r.exc) => r.disk = disk /\ r.insts = _instances

(* C37 as claimed: an enable(n) that fails because the connect fails or    *)
(* times out leaves the active flag of n as it was, so list() shows no     *)
(* instance that a failed enable turned active.                            *)
C37_FailedEnableKeepsFlag ==
    \A i \in 1..Len(_instances), cb \in ConnectBehaviours :
        LET n == _instances[i].name
            r == enable_instance(_instances, n, cb)
        IN  Raised(r.exc) =>
                /\ Lookup(r.insts, n).is_active = _instances[i].is_active
                /\ list_instances(r.insts)[listed_at(r.insts, n)].active
                        = _instances[i].is_active

(* C40 as claimed: a connect() that fails or times out leaves no transport *)
(* and no client session open for the instance.                            *)
C40_FailedConnectLeavesNothingOpen ==
    \A i \in 1..Len(_instances), cb \in ConnectBehaviours :
        (~_instances[i]._connected /\ ~_instances[i]._transport /\ ~_instances[i]._session) =>
            LET r == connect(_instances[i], cb)
            IN  Raised(r.exc) => ~r.inst._transport /\ ~r.inst._session

(* C35 as claimed: from the moment a disconnect starts tearing a session   *)
(* down until it has finished, the session is not observed as connected    *)
(* and no new tools/call is dispatched on it.                              *)
C35_ClosingSessionIsNotConnected ==
    /\ [](\A t \in TaskIds :
            (tasks[t].pc = "disconnecting" /\ Registered(_instances, tasks[t].name))
                => ~Lookup(_instances, tasks[t].name)._connected)
    /\ [][\A t, u \in TaskIds :
            (tasks[t].pc = "disconnecting" /\ tasks[u].pc = "idle"
                /\ tasks'[u].name = tasks[t].name)
                => tasks'[u].pc # "calling"]_vars

(* C38 as claimed: every connected session belongs to an instance of the   *)
(* registry; here for remove: the session of the instance a successful     *)
(* remove(name) takes out of the registry is not connected any more,       *)
(* whatever closing it did.                                                *)
C38_NoConnectedSessionOutsideRegistry ==
    \A i \in 1..Len(_instances), db \in DisconnectBehaviours :
        LET r == remove_instance(_instances, disk, _instances[i].name, db)
        IN  ~Raised(r.exc) =>
                /\ ~Registered(r.insts, _instances[i].name)
                /\ ~r.dropped._connected

(* C39 as claimed: a successful add or remove of one instance leaves every *)
(* other registered instance that had a config on disk with a config on    *)
(* disk.                                                                   *)
C39_OtherInstancesKeepTheirConfig ==
    [][(last'.layer = "facade" /\ last'.branch \in {"add", "remove"} /\ last'.status = "Done")
        => LET persisted(d, n) ==
                    \E p \in ProviderNames : \E c \in Range(file_entries(d[p], p)) :
                        HasKey(c, "name") /\ c["name"] = n
           IN  \A i \in 1..Len(_instances) :
                    (Registered(_instances', _instances[i].name)
                        /\ persisted(disk, _instances[i].name))
                            => persisted(disk', _instances[i].name)]_vars

(* C33: the current-instance hint is always unset or the name of a         *)
(* registered instance; use(name) on a name that is not registered raises  *)
(* InstanceNotFoundError and leaves the hint as it was; a remove that      *)
(* takes the hinted instance out of the registry clears the hint.          *)
C33_HintUnsetOrRegistered ==
    /\ [](/\ _current_instance = NoCurrent \/ Registered(_instances, _current_instance)
          /\ \A n \in InstanceNames :
                ~Registered(_instances, n) =>
                    LET r == use(_instances, disk, _current_instance, n)
                    IN  /\ r.exc = InstanceNotFoundError(n)
                        /\ r.current = _current_instance
                        /\ r.insts = _instances)
    /\ [][/\ (last'.layer = "facade" /\ last'.branch = "use"
                /\ last'.caught = InstanceNotFoundError("").type)
                    => _current_instance' = _current_instance
          /\ (last'.layer = "facade" /\ last'.branch = "remove"
                /\ _current_instance # NoCurrent
                /\ ~Registered(_instances', _current_instance))
                    => _current_instance' = NoCurrent]_vars

\* use on an unknown name was refused while the hint names an instance
C33_Witness ==
    /\ last.layer = "facade"
    /\ last.branch = "use"
    /\ last.caught = InstanceNotFoundError("").type
    /\ _current_instance # NoCurrent
    /\ Registered(_instances, _current_instance)

(* C32: disable(n) changes only the active flag of n: the session stays    *)
(* connected with its catalogue, the requests awaiting a tools/call are    *)
(* left as they are and end with what the child answers, never with the    *)
(* refusal of an instance that is not active; a call started on a          *)
(* connected instance that is not active is refused before anything is     *)
(* sent to the child.                                                      *)
C32_DisableOnlyClearsFlag ==
    [][\A t \in TaskIds :
        /\ (tasks[t].pc = "idle" /\ tasks'[t].op = "disable" /\ tasks'[t].exc = NoExc.type)
            => /\ _instances' =
                    Store(_instances,
                          [Lookup(_instances, tasks'[t].name) EXCEPT !.is_active = FALSE])
               /\ Lookup(_instances', tasks'[t].name)._connected
                    = Lookup(_instances, tasks'[t].name)._connected
               /\ Lookup(_instances', tasks'[t].name)._tools
                    = Lookup(_instances, tasks'[t].name)._tools
               /\ \A u \in TaskIds \ {t} : tasks'[u] = tasks[u]
        /\ (tasks[t].pc = "calling" /\ tasks'[t].pc = "done")
            => tasks'[t].exc \in {NoExc.type, MCPTimeoutError.type, ChildError.type}
        /\ (/\ tasks[t].pc = "idle" /\ tasks'[t].op = "call"
            /\ Registered(_instances, tasks'[t].name)
            /\ Lookup(_instances, tasks'[t].name)._connected
            /\ ~Lookup(_instances, tasks'[t].name).is_active)
            => /\ tasks'[t].pc = "done"
               /\ tasks'[t].exc = ConfigurationError("").type]_vars

\* a disable has ended while a tools/call on the same instance awaits the
\* child: the instance is not active and still connected
C32_Witness ==
    \E t, u \in TaskIds :
        /\ tasks[t].op = "disable" /\ tasks[t].pc = "done" /\ tasks[t].exc = NoExc.type
        /\ tasks[u].op = "call" /\ tasks[u].pc = "calling" /\ tasks[u].name = tasks[t].name
        /\ ~Lookup(_instances, tasks[t].name).is_active
        /\ Lookup(_instances, tasks[t].name)._connected
        /\ Lookup(_instances, tasks[t].name)._tools # {}

(* C31 as claimed: the first SIGINT or SIGTERM does not exit the process:  *)
(* it records that shutdown was requested and the graceful path begins; a  *)
(* later signal, received while the shutdown is in progress, exits the     *)
(* process with code 1.                                                    *)
C31_FirstSignalGracefulSecondExitsOne ==
    /\ (last.layer = "signal" /\ last.op = "KeyboardInterrupt")
            => (_shutdown_requested /\ exit_code = NotExited)
    /\ (last.layer = "signal" /\ last.op = "SystemExit")
            => exit_code = "1"

====
